---- MODULE Spec2Model ----
(***************************************************************************)
(* Graph construction and recurrent step unrolling of TFNetworkLayer.py:   *)
(* the layer contract (get_out_data_from_opts against real construction),  *)
(* and RecLayer.SubnetworkCell with RecLayer._get_output_subnet_unit       *)
(* (template pass, initial loop variables, step graph, while loop).        *)
(*                                                                         *)
(* Python dicts are functions with a string domain, so that "key in d",    *)
(* d.pop(key) and d.setdefault(key, v) are modelled as they are written.   *)
(* Python's None is the integer None (-1) where an int is expected.        *)
(* A tensor is a record [shape, dtype, v]: its static shape with batch,    *)
(* its dtype, and one integer per batch entry (the features of one batch   *)
(* entry all carry the same number).                                       *)
(***************************************************************************)
EXTENDS Integers, Sequences, FiniteSets, TLC

None == 0 - 1

\* ------------------------------------------------------------------ bounds
\* Longest sequence of a batch (the time axis is padded to the batch maximum).
MaxT == 3
\* Feature dimension of the dense driving input.
FeatDim == 2

\* Number of sequences in a batch.
BatchSize == 2

\* ------------------------------------------------------- shape descriptors
\* TFUtil.Data: shape (without batch; None = dynamic axis), dim, sparse,
\* dtype, batch_dim_axis, time_dim_axis (None = no time axis).
SetDefault(d, k, v) == IF k \in DOMAIN d THEN d ELSE d @@ (k :> v)

Get(d, k, default) == IF k \in DOMAIN d THEN d[k] ELSE default

Pop(d, k) == [x \in DOMAIN d \ {k} |-> d[x]]

Ok(data) == [err |-> "", data |-> data]

\* The descriptor of a failed call: never read, present to keep records uniform.
NoData == [shape |-> <<>>, dim |-> None, sparse |-> FALSE, dtype |-> "float32",
           batch_dim_axis |-> 0, time_dim_axis |-> None]

Err(e) == [err |-> e, data |-> NoData]

\* Data.__init__(**kwargs): fills the defaults of the fields not given.
Data(kw) ==
  LET sparse == IF "sparse" \in DOMAIN kw THEN kw["sparse"]
                ELSE IF "dtype" \in DOMAIN kw THEN kw["dtype"] = "int32" ELSE FALSE
      dim0 == Get(kw, "dim", None)
      noShape == "shape" \notin DOMAIN kw
      shape == IF ~noShape THEN kw["shape"]
               ELSE IF sparse THEN <<None>> ELSE <<None, dim0>>
      dtype == Get(kw, "dtype", IF sparse THEN "int32" ELSE "float32")
      dim == IF dim0 = None /\ Len(shape) > 0 THEN shape[Len(shape)] ELSE dim0
      batch_dim_axis == Get(kw, "batch_dim_axis", 0)
      autoTime == IF (sparse /\ Len(shape) >= 1) \/ (~sparse /\ Len(shape) >= 2)
                  THEN (IF batch_dim_axis >= 1 THEN 0 ELSE 1)
                  ELSE None
      time_dim_axis == Get(kw, "time_dim_axis", autoTime)
  IN  IF noShape /\ dim0 = None THEN Err("AssertionError: no shape specified, need dim")
      ELSE IF dim0 = None /\ Len(shape) > 0 /\ sparse THEN Err("AssertionError: need dim")
      ELSE IF ~sparse /\ Len(shape) > 0 /\ dim # shape[Len(shape)]
        THEN Err("AssertionError: shape and dim do not match")
      ELSE Ok([shape |-> shape, dim |-> dim, sparse |-> sparse, dtype |-> dtype,
               batch_dim_axis |-> batch_dim_axis, time_dim_axis |-> time_dim_axis])

\* Data.get_kwargs(): the options that rebuild the descriptor.
get_kwargs(data) ==
  [shape |-> data.shape, dim |-> data.dim, sparse |-> data.sparse, dtype |-> data.dtype,
   batch_dim_axis |-> data.batch_dim_axis, time_dim_axis |-> data.time_dim_axis]

\* Data.batch_shape: the shape with the batch axis inserted.
batch_shape(data, batch) ==
  LET b == data.batch_dim_axis
  IN  SubSeq(data.shape, 1, b) \o <<batch>> \o SubSeq(data.shape, b + 1, Len(data.shape))

\* Axis index without counting the batch axis.
AxisExcludingBatch(data, axis) ==
  IF axis = None THEN None
  ELSE IF axis > data.batch_dim_axis THEN axis - 1 ELSE axis

\* Data.matches_var_dim_pattern(other): same time axis and same dynamic axes.
matches_var_dim_pattern(a, b) ==
  /\ AxisExcludingBatch(a, a.time_dim_axis) = AxisExcludingBatch(b, b.time_dim_axis)
  /\ {i \in 1..Len(a.shape) : a.shape[i] = None} = {i \in 1..Len(b.shape) : b.shape[i] = None}

\* Data.copy_template_excluding_time_dim(): the per-step descriptor.
copy_template_excluding_time_dim(data) ==
  LET t == AxisExcludingBatch(data, data.time_dim_axis)
      shape == IF t = None THEN data.shape
               ELSE SubSeq(data.shape, 1, t) \o SubSeq(data.shape, t + 2, Len(data.shape))
  IN  [data EXCEPT !.shape = shape, !.time_dim_axis = None,
                   !.batch_dim_axis = IF data.time_dim_axis # None /\ data.batch_dim_axis > data.time_dim_axis
                                      THEN data.batch_dim_axis - 1 ELSE data.batch_dim_axis]

\* ---------------------------------------------------------- layer contract
\* A call's result: err = "" and the descriptor, or the error raised; marked is
\* the set of external data keys the call marked as used.
Res(err, data, marked) == [err |-> err, data |-> data, marked |-> marked]

Fail(e) == Res(e, NoData, {})

\* Loss.get_auto_output_layer_dim / CtcLoss.get_auto_output_layer_dim.
get_auto_output_layer_dim(loss, target_dim) ==
  IF loss = "ctc" THEN target_dim + 1 ELSE target_dim

\* LayerBase._static_get_target_value(target, network, mark_data_key_as_used).
\* A target is [p |-> "layer" or "", n |-> name]; the result's marked is what
\* network.get_extern_data adds to network.used_data_keys.
_static_get_target_value(target, network, mark_data_key_as_used) ==
  IF target.n = "" \/ target.n = "none" THEN Fail("None")
  ELSE IF target.p = "layer"
    THEN IF target.n \in DOMAIN network.layers
         THEN Res("", network.layers[target.n].output, {})
         ELSE Fail("KeyError")
  ELSE IF target.n \notin DOMAIN network.extern_data
    THEN Fail("AssertionError: target unknown")
  ELSE Res("", network.extern_data[target.n],
           IF mark_data_key_as_used THEN {target.n} ELSE {})

NoTarget == [p |-> "", n |-> ""]

\* sources[0].output.shape[:-1]
ButLast(shape) == SubSeq(shape, 1, Len(shape) - 1)

\* _base_get_out_data_from_opts, lines 104-105: the target a loss falls back to.
_target_of(network, kw) ==
  IF Get(kw, "loss", "") # "" /\ Get(kw, "target", NoTarget) = NoTarget
  THEN [p |-> "", n |-> network.default_target]
  ELSE Get(kw, "target", NoTarget)

\* Lines 106-109: n_out taken from the target (tv is the target's descriptor).
_n_out_of(kw, target, tv) ==
  IF "out_type" \notin DOMAIN kw /\ Get(kw, "n_out", None) = None /\ target # NoTarget
  THEN (IF tv.err # "" THEN None
        ELSE get_auto_output_layer_dim(Get(kw, "loss", ""), tv.data.dim))
  ELSE Get(kw, "n_out", None)

\* Lines 110-113: out_type = {"dim": n_out} if none is given.
_out_type_of(kw, n_out) ==
  IF "out_type" \notin DOMAIN kw THEN [dim |-> n_out] ELSE kw["out_type"]

\* Lines 115-116: the dtype of a dense first source.
_setdefault_dtype(out_type, sources) ==
  IF Len(sources) > 0 /\ ~sources[1].output.sparse
  THEN SetDefault(out_type, "dtype", sources[1].output.dtype) ELSE out_type

\* Lines 117-118: out_type.setdefault("dim", n_out).
_setdefault_dim(out_type, n_out) ==
  IF n_out # None THEN SetDefault(out_type, "dim", n_out) ELSE out_type

\* Lines 120-121: the shape of the first source with the own dim.
_setdefault_shape(out_type, sources) ==
  IF Len(sources) > 0
  THEN SetDefault(out_type, "shape",
         ButLast(sources[1].output.shape) \o <<Get(out_type, "dim", sources[1].output.dim)>>)
  ELSE out_type

\* Lines 125-127: the batch and time axis of the first source.
_setdefault_axes(out_type, sources) ==
  IF Len(sources) > 0 /\ "batch_dim_axis" \notin DOMAIN out_type
  THEN SetDefault(SetDefault(out_type, "batch_dim_axis", sources[1].output.batch_dim_axis),
                  "time_dim_axis", sources[1].output.time_dim_axis)
  ELSE out_type

\* Lines 134-141: the sizes come from the first source, or else from the target,
\* whose data key is marked as used unless train_flag is False.
_size_placeholder_of(network, sources, target, output) ==
  IF Len(sources) > 0 /\ matches_var_dim_pattern(sources[1].output, output)
  THEN Res("", output, {})
  ELSE IF target # NoTarget
    THEN _static_get_target_value(target, network, network.train_flag # "False")
  ELSE Res("", output, {})

\* Lines 106-141 with the target, the target's descriptor tv, n_out, and the
\* out_type after line 118 (ot3), and the Data built from the final out_type.
_base_with_output(network, kw, target, tv, n_out, ot3, output, sizes) ==
  IF "out_type" \notin DOMAIN kw /\ Get(kw, "n_out", None) = None /\ target # NoTarget
       /\ tv.err # ""
    THEN Fail("AttributeError: " \o tv.err)
  ELSE IF "out_type" \notin DOMAIN kw /\ (n_out = None \/ n_out = 0)
    THEN Fail("AssertionError: n_out")
  ELSE IF n_out # None /\ ot3["dim"] # n_out THEN Fail("AssertionError: dim == n_out")
  ELSE IF output.err # "" THEN Fail(output.err)
  ELSE IF sizes.err # "" THEN Fail("AttributeError: " \o sizes.err)
  ELSE Res("", output.data, sizes.marked)

_base_with_out_type(network, kw, target, tv, n_out, ot3, output) ==
  _base_with_output(network, kw, target, tv, n_out, ot3, output,
    _size_placeholder_of(network, Get(kw, "sources", <<>>), target, output.data))

_base_with_n_out(network, kw, target, tv, n_out, ot3) ==
  _base_with_out_type(network, kw, target, tv, n_out, ot3,
    Data(_setdefault_axes(_setdefault_shape(ot3, Get(kw, "sources", <<>>)),
                          Get(kw, "sources", <<>>))))

_base_with_target_value(network, kw, target, tv, n_out) ==
  _base_with_n_out(network, kw, target, tv, n_out,
    _setdefault_dim(_setdefault_dtype(_out_type_of(kw, n_out), Get(kw, "sources", <<>>)), n_out))

_base_with_target(network, kw, target, tv) ==
  _base_with_target_value(network, kw, target, tv, _n_out_of(kw, target, tv))

\* LayerBase._base_get_out_data_from_opts(network, name, out_type, n_out,
\* target, sources, loss, **kwargs).
_base_get_out_data_from_opts(network, kw) ==
  _base_with_target(network, kw, _target_of(network, kw),
    _static_get_target_value(_target_of(network, kw), network, FALSE))

\* get_concat_sources_data_template(src_layers).
RECURSIVE SumLastDims(_)
SumLastDims(src_layers) ==
  IF src_layers = <<>> THEN 0
  ELSE LET shape == Head(src_layers).output.shape
       IN  shape[Len(shape)] + SumLastDims(Tail(src_layers))

get_concat_sources_data_template(src_layers) ==
  IF Len(src_layers) = 0 THEN Fail("AssertionError: need source layers")
  ELSE IF \E i \in 1..Len(src_layers) : Len(src_layers[i].output.shape) = 0
    THEN Fail("IndexError")
  ELSE IF \E i \in 1..Len(src_layers) :
            LET shape == src_layers[i].output.shape
            IN  shape[Len(shape)] = None \/ shape[Len(shape)] = 0
    THEN Fail("AssertionError: source last-dim must be specified")
  ELSE LET dim == SumLastDims(src_layers)
           d == Data([shape |-> ButLast(src_layers[1].output.shape) \o <<dim>>,
                      dim |-> dim, sparse |-> FALSE,
                      batch_dim_axis |-> src_layers[1].output.batch_dim_axis,
                      time_dim_axis |-> src_layers[1].output.time_dim_axis,
                      dtype |-> src_layers[1].output.dtype])
       IN  Res(d.err, d.data, {})

\* SourceLayer.get_out_data_from_opts(network, data_key).
SourceLayer_get_out_data_from_opts(network, kw) ==
  LET data_key == Get(kw, "data_key", network.default_input)
  IN  IF data_key \in DOMAIN network.extern_data
      THEN Res("", network.extern_data[data_key], {})
      ELSE Fail("KeyError")

\* CombineLayer.get_out_data_from_opts(n_out, out_type, sources, **kwargs).
CombineLayer_get_out_data_from_opts(network, kw) ==
  LET n_out == Get(kw, "n_out", None)
      notOutType == "out_type" \notin DOMAIN kw \/ DOMAIN kw["out_type"] = {}
      sources == Get(kw, "sources", <<>>)
  IN  IF (n_out = None \/ n_out = 0) /\ notOutType
      THEN IF Len(sources) = 0 THEN Fail("IndexError")
           ELSE _base_get_out_data_from_opts(
                  network, ("out_type" :> get_kwargs(sources[1].output)) @@ kw)
      ELSE _base_get_out_data_from_opts(network, kw)

\* RnnCellLayer.get_hidden_state_size(n_out, unit, ...): cell.state_size, the
\* tuple (c, h) for a BasicLSTMCell and one int for the other cells (GRUCell).
\* tuple tells a tuple from a single int, d lists the sizes.
get_hidden_state_size(kw) ==
  IF kw["unit"] = "basiclstm" THEN [tuple |-> TRUE, d |-> <<kw["n_out"], kw["n_out"]>>]
  ELSE [tuple |-> FALSE, d |-> <<kw["n_out"]>>]

\* RnnCellLayer.get_out_data_from_opts(n_out, name, **kwargs).
RnnCellLayer_get_out_data_from_opts(network, kw) ==
  IF "n_out" \notin DOMAIN kw THEN Fail("TypeError: n_out")
  ELSE LET d == Data([shape |-> <<kw["n_out"]>>, dim |-> kw["n_out"],
                      batch_dim_axis |-> 0, time_dim_axis |-> None])
       IN  Res(d.err, d.data, {})

\* GetLastHiddenStateLayer.get_out_data_from_opts(n_out, **kwargs).
GetLastHiddenStateLayer_get_out_data_from_opts(network, kw) ==
  IF "n_out" \notin DOMAIN kw THEN Fail("TypeError: n_out")
  ELSE IF "out_type" \in DOMAIN kw
    THEN Fail("TypeError: multiple values for keyword argument out_type")
  ELSE _base_get_out_data_from_opts(
         network,
         ("out_type" :> [shape |-> <<kw["n_out"]>>, dim |-> kw["n_out"],
                         batch_dim_axis |-> 0, time_dim_axis |-> None])
           @@ Pop(kw, "n_out"))

\* cls.get_out_data_from_opts(**kwargs), dispatched on the layer class.
get_out_data_from_opts(cls, network, kw) ==
  CASE cls = "source" -> SourceLayer_get_out_data_from_opts(network, kw)
    [] cls \in {"copy", "activation"} ->
         get_concat_sources_data_template(Get(kw, "sources", <<>>))
    [] cls = "combine" -> CombineLayer_get_out_data_from_opts(network, kw)
    [] cls = "rnn_cell" -> RnnCellLayer_get_out_data_from_opts(network, kw)
    [] cls = "get_last_hidden_state" ->
         GetLastHiddenStateLayer_get_out_data_from_opts(network, kw)
    [] OTHER -> _base_get_out_data_from_opts(network, kw)

\* LayerBase.__init__ without the assertions on an explicit output.
LayerBase_init_unchecked(cls, network, kw) ==
  IF "output" \in DOMAIN kw THEN Res("", kw["output"], {})
  ELSE get_out_data_from_opts(
         cls, network,
         [k \in DOMAIN kw \cap {"out_type", "target", "sources", "loss"} |-> kw[k]]
           @@ ("n_out" :> Get(kw, "n_out", None)))

\* LayerBase.__init__: the output descriptor of the new layer. With an explicit
\* output the declared n_out / out_type are asserted against it; otherwise the
\* descriptor comes from get_out_data_from_opts with the base arguments only.
LayerBase_init(cls, network, kw) ==
  IF "output" \in DOMAIN kw
  THEN LET output == kw["output"]
           n_out == Get(kw, "n_out", None)
           out_type == Get(kw, "out_type", <<>>)
       IN  IF n_out # None /\ n_out # 0 /\ output.dim # n_out
             THEN Fail("AssertionError: output.dim == n_out")
           ELSE IF "shape" \in DOMAIN out_type /\ output.shape # out_type["shape"]
             THEN Fail("AssertionError: output.shape == out_type[shape]")
           ELSE IF "dim" \in DOMAIN out_type /\ output.dim # out_type["dim"]
             THEN Fail("AssertionError: output.dim == out_type[dim]")
           ELSE Res("", output, {})
  ELSE get_out_data_from_opts(
         cls, network,
         [k \in DOMAIN kw \cap {"out_type", "target", "sources", "loss"} |-> kw[k]]
           @@ ("n_out" :> Get(kw, "n_out", None)))

\* concat_sources(src_layers): the descriptor of the concatenated input.
concat_sources(src_layers) ==
  IF Len(src_layers) = 0 THEN Fail("AssertionError: need source layers")
  ELSE IF Len(src_layers) = 1 THEN Res("", src_layers[1].output, {})
  ELSE LET checked(data) ==
             IF data.err # "" THEN data
             ELSE IF \E i \in 1..Len(src_layers) : src_layers[i].output.sparse
               THEN Fail("AssertionError: sparse concat not supported")
             ELSE IF \E i \in 1..Len(src_layers) : src_layers[i].output.dtype # data.data.dtype
               THEN Fail("AssertionError: incompatible dtype")
             ELSE IF \E i \in 1..Len(src_layers) :
                       ButLast(src_layers[i].output.shape) # ButLast(data.data.shape)
               THEN Fail("AssertionError: incompatible concat")
             ELSE data
       IN  checked(get_concat_sources_data_template(src_layers))

\* CombineLayer._check_same_dense_dim(sources).
_check_same_dense_dim(output, sources) ==
  /\ ~output.sparse
  /\ \A i \in 1..Len(sources) :
       ~sources[i].output.sparse /\ sources[i].output.dim = output.dim

\* The constructor of the class after LayerBase.__init__ returned base, with
\* input_data = concat_sources(sources) where the class asks for it.
_init_of_class(cls, network, kw, sources, base, input_data) ==
  IF cls = "source"
    THEN IF Len(sources) > 0 THEN Fail("AssertionError: source layer does not expect sources")
         ELSE IF Get(kw, "data_key", network.default_input) \notin DOMAIN network.extern_data
           THEN Fail("KeyError")
         ELSE IF base.err # "" THEN base
         ELSE Res("", network.extern_data[Get(kw, "data_key", network.default_input)],
                  {Get(kw, "data_key", network.default_input)})
  ELSE IF base.err # "" THEN base
  ELSE IF cls = "combine"
    THEN IF Len(sources) = 0 THEN Fail("AssertionError: sources")
         ELSE IF Get(kw, "kind", "") \notin {"add", "average"} THEN Fail("AttributeError: _op_kind")
         ELSE IF ~_check_same_dense_dim(base.data, sources)
           THEN Fail("AssertionError: _check_same_dense_dim")
         ELSE base
  ELSE IF cls \in {"copy", "activation"}
    THEN IF Len(sources) = 0 THEN Fail("AttributeError: input_data is None")
         ELSE IF input_data.err # "" THEN input_data
         ELSE Res("", input_data.data, base.marked)
  ELSE IF cls = "rnn_cell"
    THEN IF "n_out" \notin DOMAIN kw \/ "prev_state" \notin DOMAIN kw
           THEN Fail("TypeError: missing argument")
         ELSE IF kw["prev_state"].tuple # get_hidden_state_size(kw).tuple
                 \/ Len(kw["prev_state"].blocks) # Len(get_hidden_state_size(kw).d)
           THEN Fail("ValueError: state does not have the structure of state_size")
         ELSE Res("", [base.data EXCEPT !.time_dim_axis = None, !.batch_dim_axis = 0],
                  base.marked)
  ELSE IF cls = "rec"
    THEN Res("", [base.data EXCEPT !.time_dim_axis = 0, !.batch_dim_axis = 1],
             base.marked)
  ELSE base

\* cls.__init__(**kwargs): the output descriptor the constructed layer ends with
\* (the layer's self.output after the constructor returned), or the error raised.
\* n_out is a named parameter of the rnn_cell and get_last_hidden_state
\* constructors: the base never sees it.
construct(cls, network, kw) ==
  _init_of_class(cls, network, kw, Get(kw, "sources", <<>>),
    LayerBase_init(cls, network,
      IF cls \in {"rnn_cell", "get_last_hidden_state"} THEN Pop(kw, "n_out") ELSE kw),
    concat_sources(Get(kw, "sources", <<>>)))

\* --------------------------------------------------- the recurrent subnetwork
\* A layer reference of a "from" list: "name", "prev:name" or "base:name".
R(n) == [p |-> "", n |-> n]

Prev(n) == [p |-> "prev", n |-> n]

\* The name "prev:base:<n>".
PrevBase(n) == [p |-> "prev:base", n |-> n]

\* name[len("prev:"):] of a name that starts with "prev:".
StripPrev(ref) == IF ref.p = "prev:base" THEN "base:" \o ref.n ELSE ref.n

Base(n) == [p |-> "base", n |-> n]

\* Every layer name of the model, in the order of Python's sorted().
NameOrder == <<"A", "B", "a", "b", "base:enc", "c", "data", "enc", "output", "s", "src", "zz">>

sorted(S) == SelectSeq(NameOrder, LAMBDA n : n \in S)

\* Names that the step network resolves to its external input (no layer of the
\* specification): a source layer over the current time slice.
ExternNames == {"data", "src"}

\* _LayerClassDict after _init_layer_class_dict(): the registered class tags.
LayerClassDict ==
  {"source", "copy", "activation", "linear", "forward", "softmax", "combine",
   "rnn_cell", "rec", "get_last_hidden_state"}

zeros(shape, dtype) == [shape |-> shape, dtype |-> dtype, v |-> [b \in 1..BatchSize |-> 0]]

ones(shape, dtype) == [shape |-> shape, dtype |-> dtype, v |-> [b \in 1..BatchSize |-> 1]]

\* initial_output options: a str, a tf.Tensor, or anything else (an int).
NoTensor == zeros(<<>>, "")

StrV(x) == [t |-> "str", s |-> x, v |-> NoTensor]

IntV == [t |-> "int", s |-> "", v |-> NoTensor]

TensorV(x) == [t |-> "tensor", s |-> "", v |-> x]

NoneV == [t |-> "None", s |-> "", v |-> NoTensor]

\* An initial value handed in by the configuration as a tensor.
GivenTensor == [shape |-> <<BatchSize, FeatDim>>, dtype |-> "float32",
                v |-> [b \in 1..BatchSize |-> 5]]

InitialOutputs == {NoneV, StrV("zeros"), StrV("ones"), StrV("bogus"), IntV, TensorV(GivenTensor)}

\* The value of a "from" option: a list of names, or a single name (a str).
FromList(names) == [t |-> "list", s |-> R(""), l |-> names]

FromStr(name) == [t |-> "str", s |-> name, l |-> <<>>]

\* The value of a "target" option: "layer:<name>", or a key of the external data.
LayerTarget(name) == [p |-> "layer", n |-> name]

DataTarget(key) == [p |-> "", n |-> key]

\* The subnetwork specifications (the "unit" dict of the rec layer).
Comb(from) == [class |-> "combine", kind |-> "add", from |-> FromList(from)]

Copy(from) == [class |-> "copy", from |-> FromList(from)]

\* An rnn_cell layer of the unit.
Cell(from) == [class |-> "rnn_cell", unit |-> "gru", n_out |-> FeatDim,
               from |-> FromList(from)]

LstmCell(from) == [class |-> "rnn_cell", unit |-> "basiclstm", n_out |-> FeatDim,
                   from |-> FromList(from)]

Scenarios ==
  {"acc", "self", "s_self", "shared", "prevonly", "chain", "plain", "diamond", "carry",
   "prev_absent", "cycle", "base", "base_missing", "no_output", "bad_class",
   "default_from", "single", "none", "single_none", "base_shadow", "cells",
   "cell_behind", "gru_cell", "lstm_cell", "layer_target", "data_target", "prev_base"}

BaseUnit(sc) ==
  CASE sc = "acc" -> [output |-> Comb(<<Prev("output"), R("src")>>)]
    [] sc = "self" -> [output |-> Comb(<<Prev("output")>>)]
    [] sc = "s_self" -> [output |-> Comb(<<R("s")>>), s |-> Comb(<<R("data"), Prev("s")>>)]
    [] sc = "shared" -> [output |-> Comb(<<R("s"), Prev("s")>>), s |-> Copy(<<R("src")>>)]
    [] sc = "prevonly" -> [output |-> Comb(<<Prev("s"), R("src")>>), s |-> Copy(<<R("src")>>)]
    [] sc = "chain" -> [output |-> Comb(<<Prev("a"), R("src")>>),
                        a |-> Comb(<<R("src"), Prev("b")>>), b |-> Copy(<<R("src")>>)]
    [] sc = "carry" -> [output |-> Comb(<<Prev("s"), R("src")>>), s |-> Comb(<<R("src")>>)]
    [] sc = "plain" -> [output |-> Copy(<<R("src")>>)]
    [] sc = "diamond" -> [output |-> Comb(<<R("a"), R("b")>>), a |-> Copy(<<R("s")>>),
                          b |-> Copy(<<R("s")>>), s |-> Copy(<<R("src")>>)]
    [] sc = "prev_absent" -> [output |-> Comb(<<Prev("zz"), R("src")>>)]
    [] sc = "cycle" -> [output |-> Comb(<<R("A")>>), A |-> Comb(<<R("B")>>),
                        B |-> Comb(<<R("A")>>)]
    [] sc = "base" -> [output |-> Comb(<<R("src"), Base("enc")>>)]
    [] sc = "base_missing" -> [output |-> Comb(<<R("src"), Base("zz")>>)]
    [] sc = "no_output" -> [s |-> Copy(<<R("src")>>)]
    [] sc = "bad_class" -> [output |-> [class |-> "nope", from |-> FromList(<<R("src")>>)]]
    [] sc = "base_shadow" -> [output |-> Comb(<<R("enc"), Base("enc")>>),
                              enc |-> Copy(<<R("src")>>)]
    [] sc = "cells" -> [output |-> Cell(<<R("c")>>),
                        c |-> ("initial_state" :> StrV("ones")) @@ Cell(<<R("src")>>)]
    [] sc = "cell_behind" -> [output |-> Comb(<<Prev("s"), R("src")>>),
                              s |-> Copy(<<R("c")>>), c |-> Cell(<<R("src")>>)]
    [] sc = "gru_cell" -> [output |-> Cell(<<R("src")>>)]
    [] sc = "lstm_cell" -> [output |-> LstmCell(<<R("src")>>)]
    [] sc = "layer_target" -> [output |-> ("target" :> LayerTarget("s")) @@ Copy(<<R("src")>>),
                               s |-> Comb(<<R("src"), R("src")>>)]
    [] sc = "data_target" -> [output |-> ("target" :> DataTarget("classes"))
                                           @@ Copy(<<R("src")>>)]
    [] sc = "prev_base" -> [output |-> Comb(<<PrevBase("enc"), R("src")>>)]
    [] sc = "default_from" -> [output |-> [class |-> "copy"]]
    [] sc = "single" -> [output |-> [class |-> "copy", from |-> FromStr(R("src"))]]
    [] sc = "none" -> [output |-> Comb(<<R("none"), R("src"), R("none")>>)]
    [] sc = "single_none" -> [output |-> [class |-> "combine", kind |-> "add",
                                          from |-> FromStr(R("none"))]]

\* The layer whose initial_output option the scenario sets.
CarryName(sc) ==
  CASE sc \in {"acc", "self", "plain", "prev_absent", "base", "base_missing", "bad_class",
               "default_from", "single", "none", "single_none", "gru_cell",
               "lstm_cell", "data_target", "prev_base"} -> "output"
    [] sc = "chain" -> "a"
    [] sc = "cycle" -> "A"
    [] OTHER -> "s"

Unit(sc, io) ==
  LET u == BaseUnit(sc)
      c == CarryName(sc)
  IN  IF io = NoneV THEN u
      ELSE [n \in DOMAIN u |->
              IF n # c THEN u[n]
              ELSE IF u[n]["class"] = "rnn_cell" THEN u[n] @@ ("initial_state" :> io)
              ELSE u[n] @@ ("initial_output" :> io)]

\* parent.network.layers: the enclosing graph, built before the rec layer.
ParentLayers ==
  [enc |-> [output |-> [shape |-> <<FeatDim>>, dim |-> FeatDim, sparse |-> FALSE,
                        dtype |-> "float32", batch_dim_axis |-> 0, time_dim_axis |-> None]]]

\* The value of base layer "enc": the same at every step.
BaseValue == [shape |-> <<BatchSize, FeatDim>>, dtype |-> "float32",
              v |-> [b \in 1..BatchSize |-> 7]]

\* Number of classes of a sparse driving input.
NumClasses == 4

\* parent.input_data: the driving input, batch-major with a time axis.
InputData(sparse) ==
  IF sparse
  THEN [shape |-> <<None>>, dim |-> NumClasses, sparse |-> TRUE, dtype |-> "int32",
        batch_dim_axis |-> 0, time_dim_axis |-> 1]
  ELSE [shape |-> <<None, FeatDim>>, dim |-> FeatDim, sparse |-> FALSE, dtype |-> "float32",
        batch_dim_axis |-> 0, time_dim_axis |-> 1]

VARIABLES
  scenario,                 \* which unit dict the rec layer was given
  unit,                     \* the unit dict (RecLayer's "unit" option)
  srcSparse,                \* whether the driving input is sparse
  seq_len,                  \* input_data.size_placeholder[0]: length per batch entry
  direction,                \* RecLayer's direction option: None, 1 or -1
  rnn_unit,                 \* RecLayer's unit option if it is a str ("" if it is a dict)
  pc,                       \* where construction stands
  err,                      \* the exception that ended construction (msg), and the
                            \* phase that raised it (at); msg = "" if none
  net_dict,                 \* SubnetworkCell.net_dict
  net_dict_extra,           \* SubnetworkCell._net_dict_extra
  stack,                    \* the calls of _construct_layer in progress
  tobj,                     \* every TemplateLayer object created, by identity
  layer_data_templates,     \* SubnetworkCell.layer_data_templates: name -> identity
  prev_layers_needed,       \* SubnetworkCell.prev_layers_needed
  layers_with_hidden_state, \* SubnetworkCell.layers_with_hidden_state
  prev_layers,              \* _construct's prev_layers: name -> "prev" template copy
  layers,                   \* SubnetworkCell.net.layers (the step graph)
  i,                        \* the loop counter of tf.while_loop
  net_vars,                 \* the loop variables (outputs_flat, states_flat)
  acc_ta,                   \* the accumulated "output" values
  result,                   \* final_acc_ta.stack()
  calls,                    \* per name: TemplateLayer objects created, shapes inferred
                            \* in the template pass, layers constructed in the step graph
  realized,                 \* per layer of the step graph: its output in the last step
  lcls,                     \* layer contract: the layer class
  lkwargs,                  \* layer contract: the layer's options and sources
  train_flag,               \* layer contract: network.train_flag
  used_data_keys,           \* layer contract: network.used_data_keys
  inferred,                 \* layer contract: what get_out_data_from_opts returned
  constructed,              \* layer contract: the layer's output after its constructor
  bound,                    \* layer contract: what Loss.init left, or the error raised
  lpc,                      \* layer contract: which of the calls were made
  _LayerClassDict,          \* the registry: class tag -> layer class
  populations,              \* how often _init_layer_class_dict has run
  lookups,                  \* what the calls of get_layer_class returned, in order
  hs_sources,               \* get_last_hidden_state: what each source reports
  hs_result,                \* get_last_hidden_state: what the call returned
  data_heap,                \* the graph: every Data object, by identity
  size_heap,                \* the graph: every size_placeholder dict, by identity
  net_layers,               \* the graph: its layers, by identity
  concat_sources_dropout_cache, \* network.concat_sources_dropout_cache
  requests,                 \* the graph: the layer constructions made, in order
  num_layers,               \* the decoder: number of decoder layers
  dec_states,               \* the decoder: every rf.State object, by identity
  dec_calls                 \* the decoder: the calls made, in order

inputs == <<scenario, unit, srcSparse, seq_len, direction, rnn_unit>>

contract == <<lcls, lkwargs, train_flag, used_data_keys, inferred, constructed, bound, lpc>>

registry == <<_LayerClassDict, populations, lookups>>

hidden == <<hs_sources, hs_result>>

graph == <<data_heap, size_heap, net_layers, concat_sources_dropout_cache, requests>>

decoder == <<num_layers, dec_states, dec_calls>>

unroller == <<inputs, pc, err, net_dict, net_dict_extra, stack,
              tobj, layer_data_templates, prev_layers_needed, layers_with_hidden_state,
              prev_layers, layers, i, net_vars, acc_ta, result, calls, realized>>

vars == <<unroller, contract, registry, hidden, graph, decoder>>

\* The empty dict.
EmptyDict == [x \in {} |-> 0]

NoErr == [msg |-> "", at |-> ""]

NoCalls == [n \in {NameOrder[j] : j \in 1..Len(NameOrder)} \cup ExternNames
              |-> [template |-> 0, infer |-> 0, construct |-> 0]]

\* x: (time, batch) after _get_input(); padded with 0 behind a sequence's end.
MaxLen == LET S == {seq_len[b] : b \in 1..BatchSize}
          IN  CHOOSE m \in S : \A k \in S : k <= m

x_ta(t) == [shape |-> batch_shape(copy_template_excluding_time_dim(InputData(srcSparse)), BatchSize),
            dtype |-> InputData(srcSparse).dtype,
            v |-> [b \in 1..BatchSize |-> IF t + 1 <= seq_len[b] THEN t + 1 ELSE 0]]

\* SubnetworkCell.net: the step network, as the layer contract sees it.
StepNet == [extern_data |-> [source |-> copy_template_excluding_time_dim(InputData(srcSparse))],
            default_input |-> "source", default_target |-> "classes",
            layers |-> layers, train_flag |-> "True"]

\* The rec layer is not constructed yet.
InitUnroller(start) ==
  /\ pc = start
  /\ err = NoErr
  /\ net_dict = EmptyDict
  /\ net_dict_extra = EmptyDict
  /\ stack = <<>>
  /\ tobj = <<>>
  /\ layer_data_templates = EmptyDict
  /\ prev_layers_needed = {}
  /\ layers_with_hidden_state = {}
  /\ prev_layers = EmptyDict
  /\ layers = EmptyDict
  /\ i = 0
  /\ net_vars = [outputs |-> <<>>, states |-> <<>>]
  /\ acc_ta = <<>>
  /\ result = <<>>
  /\ calls = NoCalls
  /\ realized = [outputs |-> <<>>, states |-> <<>>, order |-> <<>>,
                 data |-> NoneV, classes |-> NoneV]

\* No layer class is under test.
NoRes == Res("", NoData, {})

\* The class a registered tag stands for, named by its layer_class ("forward"
\* is the alias of LinearLayer).
LayerClassOf(tag) == IF tag = "forward" THEN "linear" ELSE tag

\* _init_layer_class_dict(): the table it fills.
_init_layer_class_dict == [tag \in LayerClassDict |-> LayerClassOf(tag)]

\* The registry while a graph is constructed: the lookup of the rec layer's own
\* class has populated it.
RegistryInUse ==
  /\ _LayerClassDict = _init_layer_class_dict
  /\ populations = 1
  /\ lookups = <<>>

\* What a layer reports as its last hidden state: None, or a tensor with its
\* rank and the states it was concatenated from (axis 1), in order.
NoState == [t |-> "None", ndims |-> 0, parts |-> <<>>]

HiddenIdle ==
  /\ hs_sources = <<>>
  /\ hs_result = [called |-> FALSE, err |-> "", h |-> NoState]

\* No graph of layers is under construction.
GraphIdle ==
  /\ data_heap = <<>>
  /\ size_heap = <<>>
  /\ net_layers = <<>>
  /\ concat_sources_dropout_cache = EmptyDict
  /\ requests = <<>>

\* No decoder is in use.
DecoderIdle ==
  /\ num_layers = 0
  /\ dec_states = <<>>
  /\ dec_calls = <<>>

InitContract(start) ==
  /\ train_flag \in IF start = "new" THEN {"True", "False"} ELSE {"True"}
  /\ used_data_keys = {}
  /\ inferred = NoRes
  /\ constructed = NoRes
  /\ bound = NoRes
  /\ lpc = start

Init ==
  /\ scenario \in Scenarios
  /\ \E io \in InitialOutputs : unit = Unit(scenario, io)
  /\ srcSparse \in BOOLEAN
  /\ seq_len \in [1..BatchSize -> 0..MaxT]
  /\ direction = None
  /\ rnn_unit = ""
  /\ InitUnroller("config")
  /\ lcls = ""
  /\ lkwargs = EmptyDict
  /\ InitContract("idle")
  /\ RegistryInUse
  /\ HiddenIdle
  /\ GraphIdle
  /\ DecoderIdle

\* ------------------------------------------------------------ call frames
\* A call of _construct_layer in progress: the layer's name and description,
\* the names transform_config_dict still has to pass to get_layer, and the
\* layers it got so far.  The bottom frame is the caller (_construct_template
\* or _construct) with the names it asks for.  target_layer holds the name the
\* call passes to get_layer for its "target" option, after the sources, and
\* tk whether that call has returned.
Frame(name, desc, names) ==
  [name |-> name, desc |-> desc, names |-> names, k |-> 1, srcs |-> <<>>,
   target_layer |-> <<>>, tk |-> 1]

RootName == ":root"

Top == stack[Len(stack)]

\* The layers the graph builder has marked "in progress".
InProgress == {stack[j].name : j \in 1..Len(stack)} \ {RootName}

\* A layer as get_layer returns it: a template object (by identity), a layer of
\* the enclosing graph, a layer of the step graph, or a "prev" template copy.
TmplObj(id) == [t |-> "tmpl", n |-> "", id |-> id]

BaseObj(n) == [t |-> "base", n |-> n, id |-> 0]

LayerObj(n) == [t |-> "layer", n |-> n, id |-> 0]

PrevObj(n) == [t |-> "prev", n |-> n, id |-> 0]

\* obj.output
OutputOf(obj) ==
  CASE obj.t = "tmpl" -> tobj[obj.id].output
    [] obj.t = "base" -> ParentLayers[obj.n].output
    [] obj.t = "layer" -> layers[obj.n].output
    [] obj.t = "prev" -> prev_layers[obj.n].output

AsSources(srcs) == [j \in 1..Len(srcs) |-> [output |-> OutputOf(srcs[j])]]

\* get_layer returned obj to the transform_config_dict of the top frame: a
\* source goes into d["sources"]; what the call for the target returns is
\* dropped.
Returned(stk, obj) ==
  IF stk[Len(stk)].k <= Len(stk[Len(stk)].names)
  THEN [stk EXCEPT ![Len(stk)] = [@ EXCEPT !.srcs = Append(@, obj), !.k = @ + 1]]
  ELSE [stk EXCEPT ![Len(stk)] = [@ EXCEPT !.tk = @ + 1]]

Raise(e) ==
  /\ err' = [msg |-> e, at |-> pc]
  /\ pc' = "failed"
  /\ stack' = <<>>

NotNone(r) == r.n # "none"

\* LayerBase.transform_config_dict, lines 166-168: src_names = d.pop("from",
\* ["data"]), made a list if it is not one.
from_names(d) ==
  LET from == Get(d, "from", FromList(<<R("data")>>))
  IN  IF from.t # "list" THEN <<from.s>> ELSE from.l

\* transform_config_dict that passes every name to get_layer, "none" too.
src_names_with_none(d) == from_names(d)

\* LayerBase.transform_config_dict, lines 169-172: the names it passes to
\* get_layer, in order.
src_names(d) == SelectSeq(from_names(d), NotNone)

\* transform_config_dict that passes the name of every target to get_layer.
target_layer_names_any_target(d) ==
  IF Get(d, "target", NoTarget) # NoTarget THEN <<R(d["target"].n)>> ELSE <<>>

\* LayerBase.transform_config_dict, lines 176-180: the name it passes to
\* get_layer for a target "layer:<name>", d["target"][len("layer:"):].
target_layer_names(d) ==
  IF Get(d, "target", NoTarget) # NoTarget /\ d["target"].p = "layer"
  THEN <<R(d["target"].n)>> ELSE <<>>

\* get_layer_class that registers an unknown tag as the class of that name.
get_layer_class_registers(name) ==
  LET d == IF DOMAIN _LayerClassDict = {} THEN _init_layer_class_dict ELSE _LayerClassDict
  IN  [err |-> "", cls |-> Get(d, name, name), dict |-> SetDefault(d, name, name),
       inits |-> IF DOMAIN _LayerClassDict = {} THEN 1 ELSE 0]

\* get_layer_class that runs _init_layer_class_dict on every call, on a table
\* it empties first.
get_layer_class_always_inits(name) ==
  LET d == _init_layer_class_dict
  IN  IF name \notin DOMAIN d
      THEN [err |-> "Exception: unknown layer class " \o name, cls |-> "", dict |-> d, inits |-> 1]
      ELSE [err |-> "", cls |-> d[name], dict |-> d, inits |-> 1]

\* get_layer_class(name): the table is filled if it is empty; the result is the
\* registered class (cls), or the exception, which names the tag (err).  dict
\* is the table after the call, inits how often _init_layer_class_dict ran.
get_layer_class(name) ==
  LET d == IF DOMAIN _LayerClassDict = {} THEN _init_layer_class_dict ELSE _LayerClassDict
  IN  IF name \notin DOMAIN d
      THEN [err |-> "Exception: unknown layer class " \o name, cls |-> "", dict |-> d,
            inits |-> IF DOMAIN _LayerClassDict = {} THEN 1 ELSE 0]
      ELSE [err |-> "", cls |-> d[name], dict |-> d,
            inits |-> IF DOMAIN _LayerClassDict = {} THEN 1 ELSE 0]

\* TFNetwork._construct_layer(net_dict, name, get_layer, add_layer), up to its
\* call of transform_config_dict: the frame of the new call, or the error.  A
\* name that is being constructed must not be entered again.
_construct_layer(nd, name) ==
  LET desc == IF name \in DOMAIN nd THEN nd[name]
              ELSE [class |-> "source", from |-> FromList(<<>>)]
  IN  IF name \notin DOMAIN nd /\ name \notin ExternNames
        THEN [err |-> "LayerNotFound", frame |-> Frame(name, EmptyDict, <<>>)]
      ELSE IF name \in InProgress
        THEN [err |-> "cycle", frame |-> Frame(name, EmptyDict, <<>>)]
      ELSE IF get_layer_class(desc["class"]).err # ""
        THEN [err |-> get_layer_class(desc["class"]).err, frame |-> Frame(name, EmptyDict, <<>>)]
      ELSE [err |-> "", frame |-> [Frame(name, desc, src_names(desc))
                                     EXCEPT !.target_layer = target_layer_names(desc)]]

\* The keyword arguments transform_config_dict leaves for the layer class.
layer_desc(frame) ==
  ("sources" :> AsSources(frame.srcs)) @@ Pop(Pop(frame.desc, "class"), "from")

Called(what, name) ==
  [calls EXCEPT ![name][what] = @ + 1]

\* SubnetworkCell._extract_extra: initial_state / initial_output leave net_dict.
ExtraKeys == {"initial_state", "initial_output"}

_extract_extra(u) ==
  [extra |-> [n \in DOMAIN u |-> [k \in DOMAIN u[n] \cap ExtraKeys |-> u[n][k]]],
   net_dict |-> [n \in {m \in DOMAIN u : DOMAIN u[m] \ ExtraKeys # {}}
                   |-> [k \in DOMAIN u[n] \ ExtraKeys |-> u[n][k]]]]

\* The "base:" names among the "from" references of the unit's layers.
BaseRefs(u) ==
  UNION {{src_names(u[n])[j].n : j \in {k \in 1..Len(src_names(u[n])) :
                                            src_names(u[n])[k].p = "base"}} : n \in DOMAIN u}

\* RecLayer.transform_config_dict, lines 1262-1277, run by the enclosing graph
\* before the rec layer is constructed: for every layer of the unit its class
\* is looked up, and its transform_config_dict runs on a copy with
\* sub_get_layer, which hands the "base:" names to the enclosing graph's
\* get_layer.  The unit's layers are visited in dict order: any of the errors
\* can be the first.
RecLayer_transform_config_dict ==
  /\ pc = "config"
  /\ LET errors ==
           ({get_layer_class(unit[n]["class"]).err :
               n \in {m \in DOMAIN unit : "class" \in DOMAIN unit[m]}} \ {""})
           \cup {"LayerNotFound" : n \in (BaseRefs(unit) \ DOMAIN ParentLayers)}
     IN  IF errors # {}
         THEN \E e \in errors : Raise(e)
         ELSE pc' = "new" /\ UNCHANGED <<err, stack>>
  /\ UNCHANGED <<inputs, contract, registry, hidden, graph, decoder, realized, net_dict, net_dict_extra, tobj,
                 layer_data_templates, prev_layers_needed, layers_with_hidden_state,
                 prev_layers, layers, i, net_vars, acc_ta, result, calls>>

\* RecLayer._get_cell, line 1345-1346, and SubnetworkCell.__init__ up to the
\* first get_templated_layer("output") of _construct_template.
SubnetworkCell_init ==
  /\ pc = "new"
  /\ rnn_unit = ""
  /\ net_dict' = _extract_extra(unit).net_dict
  /\ net_dict_extra' = _extract_extra(unit).extra
  /\ stack' = <<Frame(RootName, EmptyDict, <<R("output")>>)>>
  /\ pc' = "template"
  /\ UNCHANGED <<inputs, contract, registry, hidden, graph, decoder, realized, err, tobj, layer_data_templates, prev_layers_needed,
                 layers_with_hidden_state, prev_layers, layers, i, net_vars, acc_ta,
                 result, calls>>

\* The name get_layer is asked for next by the call on top of the stack.
Asking ==
  /\ Len(stack) > 0
  /\ Top.k <= Len(Top.names) \/ Top.tk <= Len(Top.target_layer)

Asked == IF Top.k <= Len(Top.names) THEN Top.names[Top.k] ELSE Top.target_layer[Top.tk]

\* get_templated_layer, line 1513: "if name in self.layer_data_templates".
\* The test precedes the removal of the prefix, and no key of the map has one.
IsTemplated(ref) == ref.p = "" /\ ref.n \in DOMAIN layer_data_templates

\* TemplateLayer.__init__: the uninitialized template.
\* The field placeholder is output.placeholder of the Data object that the
\* field output refers to: the realized value of the descriptor, None at first.
TemplateLayer(name) ==
  [name |-> name, layer_class |-> ":uninitialized-template", cls |-> "",
   output |-> _base_get_out_data_from_opts(StepNet, [out_type |-> [shape |-> <<>>]]).data,
   placeholder |-> NoneV]

\* get_templated_layer(name), the name is in layer_data_templates.
get_templated_layer_cached ==
  /\ pc = "template" /\ Asking
  /\ IsTemplated(Asked)
  /\ stack' = Returned(stack, TmplObj(layer_data_templates[Asked.n]))
  /\ UNCHANGED <<inputs, contract, registry, hidden, graph, decoder, realized, pc, err, net_dict, net_dict_extra, tobj, layer_data_templates,
                 prev_layers_needed, layers_with_hidden_state, prev_layers, layers, i,
                 net_vars, acc_ta, result, calls>>

\* get_templated_layer("base:..."): the layer of the enclosing network.  The
\* test for "base:" (line 1518) follows the removal of "prev:" (lines
\* 1515-1517), which has recorded what it left of the name.
get_templated_layer_base ==
  /\ pc = "template" /\ Asking
  /\ ~IsTemplated(Asked)
  /\ Asked.p \in {"base", "prev:base"}
  /\ prev_layers_needed' =
       IF Asked.p = "prev:base" THEN prev_layers_needed \cup {StripPrev(Asked)}
       ELSE prev_layers_needed
  /\ IF Asked.n \in DOMAIN ParentLayers
     THEN /\ stack' = Returned(stack, BaseObj(Asked.n))
          /\ UNCHANGED <<pc, err>>
     ELSE Raise("KeyError")
  /\ UNCHANGED <<inputs, contract, registry, hidden, graph, decoder, realized, net_dict, net_dict_extra, tobj, layer_data_templates,
                 layers_with_hidden_state, prev_layers, layers, i,
                 net_vars, acc_ta, result, calls>>

\* get_templated_layer(name) otherwise: "prev:" is removed and recorded, a new
\* TemplateLayer is put into the map, and the layer is constructed.
get_templated_layer_new ==
  /\ pc = "template" /\ Asking
  /\ ~IsTemplated(Asked)
  /\ Asked.p \in {"", "prev"}
  /\ LET name == Asked.n
         c == _construct_layer(net_dict, name)
     IN  /\ prev_layers_needed' =
              IF Asked.p = "prev" THEN prev_layers_needed \cup {name} ELSE prev_layers_needed
         /\ tobj' = Append(tobj, TemplateLayer(name))
         /\ layer_data_templates' = (name :> (Len(tobj) + 1)) @@ layer_data_templates
         /\ calls' = Called("template", name)
         /\ IF c.err # "" THEN Raise(c.err)
            ELSE /\ stack' = Append(stack, c.frame)
                 /\ UNCHANGED <<pc, err>>
  /\ UNCHANGED <<inputs, contract, registry, hidden, graph, decoder, realized, net_dict, net_dict_extra, layers_with_hidden_state, prev_layers,
                 layers, i, net_vars, acc_ta, result>>

\* TemplateLayer.init(output, layer_class, template_type, **kwargs).
TemplateLayer_init(layer, output, cls, template_type) ==
  [layer EXCEPT !.layer_class = ":" \o template_type \o ":" \o cls,
                !.cls = cls, !.output = output]

\* add_templated_layer(name, layer_class, **layer_desc): transform_config_dict
\* of the call on top has returned.
add_templated_layer ==
  /\ pc = "template" /\ Len(stack) > 0 /\ ~Asking
  /\ Top.name # RootName
  /\ \E output \in {get_out_data_from_opts(Top.desc["class"], StepNet, layer_desc(Top))} :
     LET name == Top.name
         cls == Top.desc["class"]
         id == layer_data_templates[name]
     IN  /\ calls' = Called("infer", name)
         /\ IF output.err # ""
            THEN /\ Raise(output.err)
                 /\ UNCHANGED <<tobj, layers_with_hidden_state>>
            ELSE /\ layers_with_hidden_state' =
                      IF cls = "rnn_cell" THEN layers_with_hidden_state \cup {name}
                      ELSE layers_with_hidden_state
                 /\ tobj' = [tobj EXCEPT ![id] = TemplateLayer_init(@, output.data, cls, "template")]
                 /\ stack' = Returned(SubSeq(stack, 1, Len(stack) - 1), TmplObj(id))
                 /\ UNCHANGED <<pc, err>>
  /\ UNCHANGED <<inputs, contract, registry, hidden, graph, decoder, realized, net_dict, net_dict_extra, layer_data_templates, prev_layers_needed,
                 prev_layers, layers, i, net_vars, acc_ta, result>>

\* _construct_template returns: get_templated_layer("output") is done.
_construct_template ==
  /\ pc = "template" /\ Len(stack) > 0 /\ ~Asking
  /\ Top.name = RootName
  /\ IF "output" \in DOMAIN layer_data_templates
     THEN /\ pc' = "init" /\ stack' = <<>> /\ UNCHANGED err
     ELSE Raise("AssertionError")
  /\ UNCHANGED <<inputs, contract, registry, hidden, graph, decoder, realized, net_dict, net_dict_extra, tobj, layer_data_templates,
                 prev_layers_needed, layers_with_hidden_state, prev_layers, layers, i,
                 net_vars, acc_ta, result, calls>>

\* ------------------------------------------------- initial loop variables
\* _get_init_output with "ones" as the default of a missing initial_output.
_get_init_output_ones(name) ==
  LET data == tobj[layer_data_templates[name]].output
      v == Get(Get(net_dict_extra, name, EmptyDict), "initial_output", NoneV)
      shape == <<BatchSize>> \o data.shape
  IN  IF name \notin DOMAIN layer_data_templates THEN [err |-> "KeyError", val |-> NoTensor]
      ELSE IF v.t = "tensor" THEN [err |-> "", val |-> v.v]
      ELSE IF v.t = "None" /\ data.sparse
        THEN [err |-> "Exception: initial output for sparse data", val |-> NoTensor]
      ELSE IF v.t = "None" THEN [err |-> "", val |-> ones(shape, data.dtype)]
      ELSE IF v.t # "str" THEN [err |-> "AssertionError: isinstance(v, str)", val |-> NoTensor]
      ELSE IF v.s = "zeros" THEN [err |-> "", val |-> zeros(shape, data.dtype)]
      ELSE IF v.s = "ones" THEN [err |-> "", val |-> ones(shape, data.dtype)]
      ELSE [err |-> "Exception: invalid initial output type", val |-> NoTensor]

\* _get_init_output that silently uses the default (0) for sparse data too.
_get_init_output_sparse_default(name) ==
  LET data == tobj[layer_data_templates[name]].output
      v == Get(Get(net_dict_extra, name, EmptyDict), "initial_output", NoneV)
      shape == <<BatchSize>> \o data.shape
  IN  IF name \notin DOMAIN layer_data_templates THEN [err |-> "KeyError", val |-> NoTensor]
      ELSE IF v.t = "tensor" THEN [err |-> "", val |-> v.v]
      ELSE IF v.t = "None" THEN [err |-> "", val |-> zeros(shape, data.dtype)]
      ELSE IF v.t # "str" THEN [err |-> "AssertionError: isinstance(v, str)", val |-> NoTensor]
      ELSE IF v.s = "zeros" THEN [err |-> "", val |-> zeros(shape, data.dtype)]
      ELSE IF v.s = "ones" THEN [err |-> "", val |-> ones(shape, data.dtype)]
      ELSE [err |-> "Exception: invalid initial output type", val |-> NoTensor]

\* SubnetworkCell._get_init_output(name, batch_dim).
_get_init_output(name) ==
  LET data == tobj[layer_data_templates[name]].output
      v == Get(Get(net_dict_extra, name, EmptyDict), "initial_output", NoneV)
      shape == <<BatchSize>> \o data.shape
  IN  IF name \notin DOMAIN layer_data_templates THEN [err |-> "KeyError", val |-> NoTensor]
      ELSE IF v.t = "tensor" THEN [err |-> "", val |-> v.v]
      ELSE IF v.t = "None" /\ data.sparse
        THEN [err |-> "Exception: initial output for sparse data", val |-> NoTensor]
      ELSE IF v.t = "None" THEN [err |-> "", val |-> zeros(shape, data.dtype)]
      ELSE IF v.t # "str" THEN [err |-> "AssertionError: isinstance(v, str)", val |-> NoTensor]
      ELSE IF v.s = "zeros" THEN [err |-> "", val |-> zeros(shape, data.dtype)]
      ELSE IF v.s = "ones" THEN [err |-> "", val |-> ones(shape, data.dtype)]
      ELSE [err |-> "Exception: invalid initial output type", val |-> NoTensor]

\* The state of a failed call: never read.
NoState0 == [tuple |-> FALSE, blocks |-> <<>>]

\* make(d) that fills every block with ones.
make_ones(v, d) == ones(<<BatchSize, d>>, "float32")

\* _get_init_state.make(d): one (batch, d) block of zeros or ones.
make(v, d) ==
  IF v = "zeros" THEN zeros(<<BatchSize, d>>, "float32") ELSE ones(<<BatchSize, d>>, "float32")

\* SubnetworkCell._get_init_state(name, batch_dim).
_get_init_state(name) ==
  LET v == Get(net_dict_extra[name], "initial_state", StrV("zeros"))
      dim == get_hidden_state_size(net_dict[name])
  IN  IF v.t = "tensor" THEN [err |-> "", val |-> [tuple |-> FALSE, blocks |-> <<v.v>>]]
      ELSE IF v.t # "str" THEN [err |-> "AssertionError: isinstance(v, str)", val |-> NoState0]
      ELSE IF tobj[layer_data_templates[name]].cls # "rnn_cell"
        THEN [err |-> "AssertionError: issubclass(cl, RnnCellLayer)", val |-> NoState0]
      ELSE IF v.s \notin {"zeros", "ones"}
        THEN [err |-> "Exception: invalid initial state type", val |-> NoState0]
      ELSE [err |-> "",
            val |-> [tuple |-> dim.tuple,
                     blocks |-> [j \in 1..Len(dim.d) |-> make(v.s, dim.d[j])]]]

\* self.target of the rec layer, "" if none is set.
RecTarget == Get(lkwargs, "target", "")

\* y_ta exists whenever the rec layer has a target, whatever the train flag.
have_y_ta_ignoring_train_flag == RecTarget # ""

\* _get_output_subnet_unit, lines 1674-1683: y_ta is made (and the data key of
\* the target marked as used) if the layer has a target and the train flag is
\* not False.
have_y_ta == RecTarget # "" /\ train_flag # "False"

\* y_ta.read(t): time slice t of the target labels, time-major.
y_ta(t) == [shape |-> <<BatchSize>>, dtype |-> "int32",
            v |-> [b \in 1..BatchSize |->
                     IF t + 1 <= seq_len[b] THEN (2 * t + 1) % NumClasses ELSE 0]]

\* SubnetworkCell.get_init_loop_vars(batch_dim), called by
\* _get_output_subnet_unit before the loop is built.
get_init_loop_vars ==
  /\ pc = "init"
  /\ \E init \in {[n \in prev_layers_needed |-> _get_init_output(n)]},
        init_states \in {[n \in layers_with_hidden_state |-> _get_init_state(n)]} :
     LET bad == {n \in prev_layers_needed : init[n].err # ""}
         bad_states == {n \in layers_with_hidden_state : init_states[n].err # ""}
     IN  IF bad # {}
         THEN /\ Raise(init[sorted(bad)[1]].err)
              /\ UNCHANGED net_vars
         ELSE IF bad_states # {}
         THEN /\ Raise(init_states[sorted(bad_states)[1]].err)
              /\ UNCHANGED net_vars
         ELSE /\ net_vars' =
                   [outputs |-> [j \in 1..Cardinality(prev_layers_needed)
                                   |-> init[sorted(prev_layers_needed)[j]].val],
                    states |-> [j \in 1..Cardinality(layers_with_hidden_state)
                                  |-> init_states[sorted(layers_with_hidden_state)[j]].val]]
              /\ pc' = "build"
              /\ UNCHANGED <<err, stack>>
  /\ used_data_keys' = used_data_keys \cup (IF have_y_ta THEN {RecTarget} ELSE {})
  /\ UNCHANGED <<inputs, registry, hidden, graph, decoder, realized, net_dict, net_dict_extra, tobj, layer_data_templates,
                 prev_layers_needed, layers_with_hidden_state, prev_layers, layers, i,
                 acc_ta, result, calls,
                 lcls, lkwargs, train_flag, inferred, constructed, bound, lpc>>

\* ------------------------------------------------------- the step graph
\* TemplateLayer.copy("prev"): a new template with the same class and output.
\* init stored its output argument in self._kwargs["output"] (line 1475) and
\* copy passes **self._kwargs on (line 1484): the output of the copy is the
\* Data object of the template itself, with the placeholder it has.
TemplateLayer_copy(layer, template_type) ==
  [TemplateLayer_init(TemplateLayer(layer.name), layer.output, layer.cls, template_type)
     EXCEPT !.placeholder = layer.placeholder]

\* layer.output.placeholder = prev_outputs[name] on the copies of the given
\* names (line 1545): the copy and its template share one Data object, so the
\* assignment shows in both.
bind_placeholder(objs, names, values) ==
  [id \in DOMAIN objs |->
     IF objs[id].name \in names /\ layer_data_templates[objs[id].name] = id
     THEN [objs[id] EXCEPT !.placeholder = values[objs[id].name]]
     ELSE objs[id]]

\* placeholder.set_shape(batch_shape): the static shapes must be compatible.
set_shape_ok(tensor, data) == tensor.shape = <<BatchSize>> \o data.shape

\* The names whose copy got its placeholder before set_shape failed (lines
\* 1543-1546): the loop goes through prev_outputs in the order of its keys.
bound_before_failure(bad) ==
  LET keys == sorted(prev_layers_needed)
      first == CHOOSE j \in 1..Len(keys) :
                 keys[j] \in bad /\ \A k \in 1..(j - 1) : keys[k] \notin bad
  IN  {keys[j] : j \in 1..first}

\* {k: v for (k, v) in zip(keys, values)}
zip_dict(keys, values) ==
  [k \in {keys[j] : j \in (1..Len(keys)) \cap (1..Len(values))}
     |-> values[CHOOSE j \in (1..Len(keys)) \cap (1..Len(values)) : keys[j] = k]]

\* get_next_loop_vars, lines 1630 and 1632: the flat loop variables by name.
prev_outputs == zip_dict(sorted(prev_layers_needed), net_vars.outputs)

prev_states == zip_dict(sorted(layers_with_hidden_state), net_vars.states)

\* _construct, lines 1549-1552: the copy of net_dict with each carried state
\* bound as the prev_state of its layer.
net_dict_with_prev_state ==
  [n \in DOMAIN net_dict |->
     IF n \in DOMAIN prev_states THEN ("prev_state" :> prev_states[n]) @@ net_dict[n]
     ELSE net_dict[n]]

\* _construct without its last loop: only get_layer("output").
_construct_names_output_only == <<R("output")>>

\* _construct, lines 1562-1566: get_layer("output"), then get_layer(name) for
\* the names in prev_layers_needed ("might not be resolved otherwise").
_construct_names ==
  <<R("output")>> \o [j \in 1..Cardinality(prev_layers_needed)
                        |-> R(sorted(prev_layers_needed)[j])]

\* body -> get_next_loop_vars -> _construct, up to its get_layer("output"):
\* tf.while_loop builds the body once, with the loop variables as its inputs.
_construct ==
  /\ pc = "build" /\ stack = <<>> /\ DOMAIN prev_layers = {} /\ DOMAIN layers = {}
  /\ \E copies \in {[n \in prev_layers_needed |->
                        TemplateLayer_copy(tobj[layer_data_templates[n]], "prev")]} :
     LET bad == {n \in prev_layers_needed : ~set_shape_ok(prev_outputs[n], copies[n].output)}
     IN  IF Len(net_vars.outputs) # Cardinality(prev_layers_needed)
              \/ Len(net_vars.states) # Cardinality(layers_with_hidden_state)
         THEN Raise("AssertionError") /\ UNCHANGED <<prev_layers, tobj>>
         ELSE IF bad # {}
         THEN /\ Raise("ValueError: set_shape")
              /\ tobj' = bind_placeholder(tobj, bound_before_failure(bad), prev_outputs)
              /\ UNCHANGED prev_layers
         ELSE IF ~(DOMAIN prev_states \subseteq DOMAIN net_dict)
         THEN /\ Raise("KeyError")
              /\ tobj' = bind_placeholder(tobj, prev_layers_needed, prev_outputs)
              /\ UNCHANGED prev_layers
         ELSE /\ prev_layers' = [n \in prev_layers_needed |->
                                  [copies[n] EXCEPT !.placeholder = prev_outputs[n]]]
              /\ tobj' = bind_placeholder(tobj, prev_layers_needed, prev_outputs)
              /\ stack' = <<Frame(RootName, EmptyDict, _construct_names)>>
              /\ UNCHANGED <<pc, err>>
  /\ UNCHANGED <<inputs, contract, registry, hidden, graph, decoder, realized, net_dict, net_dict_extra, layer_data_templates,
                 prev_layers_needed, layers_with_hidden_state, layers, i, net_vars, acc_ta,
                 result, calls>>

\* _construct.get_layer("prev:..."): the "prev" copy of the template.
get_layer_prev ==
  /\ pc = "build" /\ Asking
  /\ Asked.p \in {"prev", "prev:base"}
  /\ IF StripPrev(Asked) \in DOMAIN prev_layers
     THEN stack' = Returned(stack, PrevObj(StripPrev(Asked))) /\ UNCHANGED <<pc, err>>
     ELSE Raise("KeyError")
  /\ UNCHANGED <<inputs, contract, registry, hidden, graph, decoder, realized, net_dict, net_dict_extra, tobj, layer_data_templates,
                 prev_layers_needed, layers_with_hidden_state, prev_layers, layers, i,
                 net_vars, acc_ta, result, calls>>

\* get_layer("base:...") that prefers a layer of that name in the step graph.
get_layer_base_prefers_step_graph ==
  /\ pc = "build" /\ Asking
  /\ Asked.p = "base"
  /\ IF Asked.n \in DOMAIN layers
     THEN stack' = Returned(stack, LayerObj(Asked.n)) /\ UNCHANGED <<pc, err>>
     ELSE IF Asked.n \in DOMAIN ParentLayers
     THEN stack' = Returned(stack, BaseObj(Asked.n)) /\ UNCHANGED <<pc, err>>
     ELSE Raise("KeyError")
  /\ UNCHANGED <<inputs, contract, registry, hidden, graph, decoder, realized, net_dict, net_dict_extra, tobj,
                 layer_data_templates, prev_layers_needed, layers_with_hidden_state,
                 prev_layers, layers, i, net_vars, acc_ta, result, calls>>

\* _construct.get_layer("base:..."): the layer of the enclosing network.
get_layer_base ==
  /\ pc = "build" /\ Asking
  /\ Asked.p = "base"
  /\ IF Asked.n \in DOMAIN ParentLayers
     THEN stack' = Returned(stack, BaseObj(Asked.n)) /\ UNCHANGED <<pc, err>>
     ELSE Raise("KeyError")
  /\ UNCHANGED <<inputs, contract, registry, hidden, graph, decoder, realized, net_dict, net_dict_extra, tobj, layer_data_templates,
                 prev_layers_needed, layers_with_hidden_state, prev_layers, layers, i,
                 net_vars, acc_ta, result, calls>>

\* _construct.get_layer(name) -> _construct_layer: the layer is in net.layers.
get_layer_cached ==
  /\ pc = "build" /\ Asking
  /\ Asked.p = "" /\ Asked.n \in DOMAIN layers
  /\ stack' = Returned(stack, LayerObj(Asked.n))
  /\ UNCHANGED <<inputs, contract, registry, hidden, graph, decoder, realized, pc, err, net_dict, net_dict_extra, tobj, layer_data_templates,
                 prev_layers_needed, layers_with_hidden_state, prev_layers, layers, i,
                 net_vars, acc_ta, result, calls>>

\* _construct.get_layer(name) -> _construct_layer: the layer is constructed.
get_layer_new ==
  /\ pc = "build" /\ Asking
  /\ Asked.p = "" /\ Asked.n \notin DOMAIN layers
  /\ LET c == _construct_layer(net_dict_with_prev_state, Asked.n)
     IN  IF c.err # "" THEN Raise(c.err)
         ELSE stack' = Append(stack, c.frame) /\ UNCHANGED <<pc, err>>
  /\ UNCHANGED <<inputs, contract, registry, hidden, graph, decoder, realized, net_dict, net_dict_extra, tobj, layer_data_templates,
                 prev_layers_needed, layers_with_hidden_state, prev_layers, layers, i,
                 net_vars, acc_ta, result, calls>>

\* TFNetwork.add_layer(name, layer_class, **layer_desc): the output is inferred,
\* the layer is constructed with it and put into net.layers.
add_layer ==
  /\ pc = "build" /\ Len(stack) > 0 /\ ~Asking
  /\ Top.name # RootName
  /\ \E output \in {get_out_data_from_opts(Top.desc["class"], StepNet, layer_desc(Top))} :
     \E layer \in {construct(Top.desc["class"], StepNet,
                             ("output" :> output.data) @@ layer_desc(Top))} :
     LET name == Top.name
         cls == Top.desc["class"]
     IN  IF output.err # ""
         THEN Raise(output.err) /\ UNCHANGED <<layers, calls>>
         ELSE IF layer.err # ""
         THEN /\ Raise(layer.err)
              /\ calls' = Called("construct", name)
              /\ UNCHANGED layers
         ELSE /\ layers' = (name :> [name |-> name, cls |-> cls, output |-> layer.data,
                                     sources |-> Top.srcs]) @@ layers
              /\ calls' = Called("construct", name)
              /\ stack' = Returned(SubSeq(stack, 1, Len(stack) - 1), LayerObj(name))
              /\ UNCHANGED <<pc, err>>
  /\ UNCHANGED <<inputs, contract, registry, hidden, graph, decoder, realized, net_dict, net_dict_extra, tobj, layer_data_templates,
                 prev_layers_needed, layers_with_hidden_state, prev_layers, i, net_vars,
                 acc_ta, result>>

\* _construct returned; get_next_loop_vars reads the next loop variables from
\* net.layers, and body the "output" layer.
get_next_loop_vars ==
  /\ pc = "build" /\ Len(stack) > 0 /\ ~Asking
  /\ Top.name = RootName
  /\ IF "output" \notin DOMAIN layers THEN Raise("AssertionError")
     ELSE IF ~(prev_layers_needed \subseteq DOMAIN layers) THEN Raise("KeyError")
     ELSE IF ~(layers_with_hidden_state \subseteq DOMAIN layers) THEN Raise("KeyError")
     ELSE pc' = "loop" /\ stack' = <<>> /\ UNCHANGED err
  /\ UNCHANGED <<inputs, contract, registry, hidden, graph, decoder, realized, net_dict, net_dict_extra, tobj, layer_data_templates,
                 prev_layers_needed, layers_with_hidden_state, prev_layers, layers, i,
                 net_vars, acc_ta, result, calls>>

\* --------------------------------------------------------------- the loop
\* CombineLayer._op_kind_add: x = sources[0]; x += x2 for the others.
RECURSIVE _op_kind_add(_)
_op_kind_add(values) ==
  IF Len(values) = 1 THEN values[1]
  ELSE LET x == _op_kind_add(SubSeq(values, 1, Len(values) - 1))
           x2 == values[Len(values)]
       IN  [x EXCEPT !.v = [b \in 1..BatchSize |-> x.v[b] + x2.v[b]]]

\* self.cell(self.input_data.placeholder, prev_state) of an rnn_cell layer: the
\* first block of the new state adds the input to that of the previous state,
\* a further block (h of an LSTM) holds the same numbers; they are the output.
rnn_cell_call(input, prev_state) ==
  [prev_state EXCEPT !.blocks =
     [j \in 1..Len(prev_state.blocks) |->
        [prev_state.blocks[j] EXCEPT !.v =
           [b \in 1..BatchSize |-> prev_state.blocks[1].v[b] + input.v[b]]]]]

\* The value of a layer of the step graph in one iteration: prev.outputs and
\* prev.states are the carried outputs and states of the iteration by name,
\* data is the time slice of the driving input.
RECURSIVE ValueOf(_, _, _)
ValueOf(obj, prev, data) ==
  CASE obj.t = "prev" -> prev.outputs[obj.n]
    [] obj.t = "base" -> BaseValue
    [] obj.t = "layer" ->
         LET layer == layers[obj.n]
             values == [j \in 1..Len(layer.sources) |-> ValueOf(layer.sources[j], prev, data)]
         IN  CASE layer.cls = "source" -> data
               [] layer.cls = "combine" -> _op_kind_add(values)
               [] layer.cls = "rnn_cell" ->
                    rnn_cell_call(values[1], prev.states[obj.n]).blocks[1]
               [] OTHER -> values[1]

\* RnnCellLayer.get_hidden_state(): the state the cell returned.
get_hidden_state(name, prev, data) ==
  rnn_cell_call(ValueOf(layers[name].sources[1], prev, data), prev.states[name])

\* The next loop variables with the outputs in the reverse name order.
outputs_and_states_flat_reversed(prev, data) ==
  [outputs |-> [j \in 1..Cardinality(prev_layers_needed) |->
                  ValueOf(LayerObj(sorted(prev_layers_needed)[
                            Cardinality(prev_layers_needed) + 1 - j]), prev, data)],
   states |-> [j \in 1..Cardinality(layers_with_hidden_state) |->
                 get_hidden_state(sorted(layers_with_hidden_state)[j], prev, data)]]

\* get_next_loop_vars, lines 1635-1637: outputs_flat and states_flat.
outputs_and_states_flat(prev, data) ==
  [outputs |-> [j \in 1..Cardinality(prev_layers_needed) |->
                  ValueOf(LayerObj(sorted(prev_layers_needed)[j]), prev, data)],
   states |-> [j \in 1..Cardinality(layers_with_hidden_state) |->
                 get_hidden_state(sorted(layers_with_hidden_state)[j], prev, data)]]

\* A loop condition that lets the counter reach max_out_len (tf.less_equal).
cond_less_equal == i <= MaxLen

\* cond(i, net_vars, acc_ta): tf.less(i, max_out_len).
cond == i < MaxLen

\* One iteration of the body.
body ==
  /\ pc = "loop"
  /\ cond
  /\ \E prev \in {[outputs |-> prev_outputs, states |-> prev_states]} :
       /\ realized' = [outputs |-> [n \in DOMAIN layers |-> ValueOf(LayerObj(n), prev, x_ta(i))],
                       states |-> [n \in layers_with_hidden_state
                                     |-> get_hidden_state(n, prev, x_ta(i))],
                       order |-> Append(realized.order, i),
                       data |-> TensorV(x_ta(i)),
                       classes |-> IF have_y_ta THEN TensorV(y_ta(i)) ELSE NoneV]
       /\ net_vars' = outputs_and_states_flat(prev, x_ta(i))
       /\ acc_ta' = Append(acc_ta, ValueOf(LayerObj("output"), prev, x_ta(i)))
  /\ i' = i + 1
  /\ UNCHANGED <<inputs, contract, registry, hidden, graph, decoder, pc, err, net_dict, net_dict_extra, stack, tobj, layer_data_templates,
                 prev_layers_needed, layers_with_hidden_state, prev_layers, layers, result,
                 calls>>

\* The loop ends: result = final_acc_ta.stack().
_get_output_subnet_unit ==
  /\ pc = "loop"
  /\ ~cond
  /\ result' = acc_ta
  /\ pc' = "done"
  /\ UNCHANGED <<inputs, contract, registry, hidden, graph, decoder, realized, err, net_dict, net_dict_extra, stack, tobj, layer_data_templates,
                 prev_layers_needed, layers_with_hidden_state, prev_layers, layers, i,
                 net_vars, acc_ta, calls>>

Next ==
  \/ RecLayer_transform_config_dict
  \/ SubnetworkCell_init
  \/ get_templated_layer_cached
  \/ get_templated_layer_base
  \/ get_templated_layer_new
  \/ add_templated_layer
  \/ _construct_template
  \/ get_init_loop_vars
  \/ _construct
  \/ get_layer_prev
  \/ get_layer_base
  \/ get_layer_cached
  \/ get_layer_new
  \/ add_layer
  \/ get_next_loop_vars
  \/ body
  \/ _get_output_subnet_unit

Spec == Init /\ [][Next]_vars

\* The rec layer with or without a target, in a network with the train flag
\* True or False.
InitForcing ==
  /\ scenario \in {"carry", "base", "diamond", "shared"}
  /\ unit = Unit(scenario, NoneV)
  /\ srcSparse = FALSE
  /\ seq_len \in [1..BatchSize -> 0..MaxT]
  /\ direction = None
  /\ rnn_unit = ""
  /\ InitUnroller("config")
  /\ lcls = "rec"
  /\ lkwargs \in {EmptyDict, "target" :> "classes"}
  /\ train_flag \in {"True", "False"}
  /\ used_data_keys = {}
  /\ inferred = NoRes
  /\ constructed = NoRes
  /\ bound = NoRes
  /\ lpc = "idle"
  /\ RegistryInUse
  /\ HiddenIdle
  /\ GraphIdle
  /\ DecoderIdle

SpecForcing == InitForcing /\ [][Next]_vars

\* -------------------------------------------- the rec layer with a str unit
\* RecLayer._get_cell(unit) for a str: the kind of cell the unit names
\* ("lstm" and "lstmp" become "nativelstm").
RnnUnits == {"basiclstm", "lstmblockfused", "lstm", "nativelstm"}

_get_cell(u) ==
  CASE u \in {"lstm", "lstmp", "nativelstm"} -> "RecSeqCellOp"
    [] u = "lstmblockfused" -> "FusedRNNCell"
    [] OTHER -> "RNNCell"

\* _get_input(): x as (time, batch), the numbers of the driving input.
_get_input == [t \in 1..MaxLen |-> x_ta(t - 1).v]

\* tf.reverse_sequence(x, seq_lengths, batch_dim=1, seq_dim=0): every batch
\* entry is reversed within its own length, the padding stays.
reverse_sequence(x, seq_lengths) ==
  [t \in 1..Len(x) |-> [b \in 1..BatchSize |->
     IF t <= seq_lengths[b] THEN x[seq_lengths[b] + 1 - t][b] ELSE x[t][b]]]

\* TFUtil.directed(x, direction): x[::-1] for direction -1, else x.
directed(x, d) ==
  IF d = 0 - 1 THEN [t \in 1..Len(x) |-> x[Len(x) + 1 - t]] ELSE x

\* TFUtil.sequence_mask_time_major(seq_len, maxlen): (time, batch).
sequence_mask_time_major(seq_lengths, maxlen) ==
  [t \in 1..maxlen |-> [b \in 1..BatchSize |-> t <= seq_lengths[b]]]

\* The cell of the model keeps the sum of its inputs as its state and emits it;
\* where index is false the state is kept and the output is zero (what
\* dynamic_rnn, a fused cell and the native op do behind a sequence's end).
RECURSIVE cell_state(_, _, _, _)
cell_state(x, index, b, t) ==
  IF t = 0 THEN 0
  ELSE cell_state(x, index, b, t - 1) + (IF index[t][b] THEN x[t][b] ELSE 0)

cell(x, index) ==
  [t \in 1..Len(x) |-> [b \in 1..BatchSize |->
     IF index[t][b] THEN cell_state(x, index, b, t) ELSE 0]]

\* The (time, batch) numbers y as the tensors of a stacked result.
AsResult(y, dim) ==
  [t \in 1..Len(y) |-> [shape |-> <<BatchSize, dim>>, dtype |-> "float32", v |-> y[t]]]

\* RecLayer._get_output_cell(cell): an RNNCell through dynamic_rnn, or a fused
\* cell, both with sequence_length=seq_len.
_get_output_cell ==
  /\ pc = "new"
  /\ rnn_unit # "" /\ _get_cell(rnn_unit) \in {"RNNCell", "FusedRNNCell"}
  /\ IF srcSparse THEN Raise("AssertionError: not self.input_data.sparse") /\ UNCHANGED result
     ELSE \E x \in {IF direction = 0 - 1 THEN reverse_sequence(_get_input, seq_len)
                     ELSE _get_input} :
          \E y \in {cell(x, sequence_mask_time_major(seq_len, Len(x)))} :
            /\ result' = AsResult(IF direction = 0 - 1 THEN reverse_sequence(y, seq_len) ELSE y,
                                  FeatDim)
            /\ pc' = "done"
            /\ UNCHANGED <<err, stack>>
  /\ UNCHANGED <<inputs, contract, registry, hidden, graph, decoder, realized, net_dict, net_dict_extra, tobj,
                 layer_data_templates, prev_layers_needed, layers_with_hidden_state,
                 prev_layers, layers, i, net_vars, acc_ta, calls>>

\* RecLayer._get_output_native_rec_op(cell): the native op runs on directed
\* inputs with the directed sequence mask.
_get_output_native_rec_op ==
  /\ pc = "new"
  /\ rnn_unit # "" /\ _get_cell(rnn_unit) = "RecSeqCellOp"
  /\ \E x \in {_get_input} :
     \E index \in {sequence_mask_time_major(seq_len, Len(x))} :
     \E y \in {cell(directed(x, direction), directed(index, direction))} :
       result' = AsResult(directed(y, direction), FeatDim)
  /\ pc' = "done"
  /\ UNCHANGED <<inputs, contract, registry, hidden, graph, decoder, realized, err, stack, net_dict, net_dict_extra,
                 tobj, layer_data_templates, prev_layers_needed, layers_with_hidden_state,
                 prev_layers, layers, i, net_vars, acc_ta, calls>>

\* The rec layer with any unit and direction: the units that are dicts are the
\* subnetworks "carry" and "base".
InitRec ==
  /\ rnn_unit \in RnnUnits \cup {""}
  /\ scenario \in IF rnn_unit = "" THEN {"carry", "base"} ELSE {"str_unit"}
  /\ unit = IF rnn_unit = "" THEN Unit(scenario, NoneV) ELSE EmptyDict
  /\ srcSparse \in BOOLEAN
  /\ seq_len \in [1..BatchSize -> 0..MaxT]
  /\ direction \in {None, 1, 0 - 1}
  /\ InitUnroller("config")
  /\ lcls = ""
  /\ lkwargs = EmptyDict
  /\ InitContract("idle")
  /\ RegistryInUse
  /\ HiddenIdle
  /\ GraphIdle
  /\ DecoderIdle

NextRec ==
  \/ Next
  \/ _get_output_cell
  \/ _get_output_native_rec_op

SpecRec == InitRec /\ [][NextRec]_vars

\* --------------------------------------------------- the layer registry
\* Number of lookups in one run.
MaxLookups == 3

\* The tags looked up: registered ones, the alias, and unregistered ones.
LookupNames == {"linear", "forward", "rec", "nope", "Linear"}

\* The module is loaded: _LayerClassDict = {}.
InitRegistry ==
  /\ scenario = "plain"
  /\ unit = Unit("plain", NoneV)
  /\ srcSparse = FALSE
  /\ seq_len = [b \in 1..BatchSize |-> 0]
  /\ direction = None
  /\ rnn_unit = ""
  /\ InitUnroller("idle")
  /\ lcls = ""
  /\ lkwargs = EmptyDict
  /\ InitContract("idle")
  /\ _LayerClassDict = EmptyDict
  /\ populations = 0
  /\ lookups = <<>>
  /\ HiddenIdle
  /\ GraphIdle
  /\ DecoderIdle

\* A caller looks a tag up.
call_get_layer_class ==
  /\ Len(lookups) < MaxLookups
  /\ \E name \in LookupNames :
     \E r \in {get_layer_class(name)} :
       /\ _LayerClassDict' = r.dict
       /\ populations' = populations + r.inits
       /\ lookups' = Append(lookups, [name |-> name, err |-> r.err, cls |-> r.cls])
  /\ UNCHANGED <<unroller, contract, hidden, graph, decoder>>

NextRegistry == call_get_layer_class

SpecRegistry == InitRegistry /\ [][NextRegistry]_vars

\* ------------------------------------------------- the last hidden state
\* Number of sources of the layer asked for its last hidden state.
MaxSources == 3

\* A tensor of the given rank, named by x.
StateOf(x, ndims) == [t |-> "tensor", ndims |-> ndims, parts |-> <<x>>]

\* What s.get_last_hidden_state() does for a source s: it returns None (a
\* layer without sources or state), a (batch, dim) tensor, a tensor of another
\* rank, or it raises (RecLayer.get_last_hidden_state without a state).
SourceReports ==
  {NoState, StateOf("h1", 2), StateOf("h2", 2), StateOf("h3", 3),
   [t |-> "raise", ndims |-> 0, parts |-> <<>>]}

IsState(h) == h.t = "tensor"

\* tf.concat(hidden_states, axis=1).
RECURSIVE concat_hidden_states(_)
concat_hidden_states(hidden_states) ==
  IF hidden_states = <<>> THEN <<>>
  ELSE Head(hidden_states).parts \o concat_hidden_states(Tail(hidden_states))

\* get_last_hidden_state without the assertion on the rank.
get_last_hidden_state_unchecked(sources) ==
  LET hidden_states == SelectSeq(sources, IsState)
  IN  IF \E j \in 1..Len(sources) : sources[j].t = "raise"
        THEN [called |-> TRUE, err |-> "AssertionError: last-hidden-state not implemented",
              h |-> NoState]
      ELSE IF hidden_states = <<>> THEN [called |-> TRUE, err |-> "", h |-> NoState]
      ELSE IF Len(hidden_states) = 1 THEN [called |-> TRUE, err |-> "", h |-> hidden_states[1]]
      ELSE [called |-> TRUE, err |-> "",
            h |-> [t |-> "tensor", ndims |-> 2, parts |-> concat_hidden_states(hidden_states)]]

\* LayerBase.get_last_hidden_state(): the sources are asked in order; the
\* first one that raises, or returns a tensor that is not of rank 2, ends
\* the call.
get_last_hidden_state(sources) ==
  LET hidden_states == SelectSeq(sources, IsState)
      bad == {j \in 1..Len(sources) :
                sources[j].t = "raise" \/ (IsState(sources[j]) /\ sources[j].ndims # 2)}
      first == CHOOSE j \in bad : \A k \in bad : j <= k
  IN  IF bad # {}
        THEN [called |-> TRUE,
              err |-> IF sources[first].t = "raise"
                      THEN "AssertionError: last-hidden-state not implemented"
                      ELSE "AssertionError: h.get_shape().ndims == 2",
              h |-> NoState]
      ELSE IF hidden_states = <<>> THEN [called |-> TRUE, err |-> "", h |-> NoState]
      ELSE IF Len(hidden_states) = 1 THEN [called |-> TRUE, err |-> "", h |-> hidden_states[1]]
      ELSE [called |-> TRUE, err |-> "",
            h |-> [t |-> "tensor", ndims |-> 2, parts |-> concat_hidden_states(hidden_states)]]

\* A layer without a state of its own, over any sources.
InitHidden ==
  /\ scenario = "plain"
  /\ unit = Unit("plain", NoneV)
  /\ srcSparse = FALSE
  /\ seq_len = [b \in 1..BatchSize |-> 0]
  /\ direction = None
  /\ rnn_unit = ""
  /\ InitUnroller("idle")
  /\ lcls = ""
  /\ lkwargs = EmptyDict
  /\ InitContract("idle")
  /\ RegistryInUse
  /\ \E n \in 0..MaxSources : hs_sources \in [1..n -> SourceReports]
  /\ hs_result = [called |-> FALSE, err |-> "", h |-> NoState]
  /\ GraphIdle
  /\ DecoderIdle

call_get_last_hidden_state ==
  /\ ~hs_result.called
  /\ hs_result' = get_last_hidden_state(hs_sources)
  /\ UNCHANGED <<unroller, contract, registry, hs_sources, graph, decoder>>

NextHidden == call_get_last_hidden_state

SpecHidden == InitHidden /\ [][NextHidden]_vars

\* ------------------------------------------ the layer contract, call by call
\* The classes under test.
ContractClasses ==
  {"source", "copy", "combine", "linear", "softmax", "rnn_cell", "rec",
   "get_last_hidden_state"}

\* n_out of the layer under test, where one is given.
OutDim == 3

\* Descriptors of already-resolved sources: batch-major and time-major dense
\* input, sparse input, and a dense input without time axis.
BatchMajor == InputData(FALSE)

TimeMajor == [BatchMajor EXCEPT !.batch_dim_axis = 1, !.time_dim_axis = 0]

NoTime == [shape |-> <<FeatDim>>, dim |-> FeatDim, sparse |-> FALSE, dtype |-> "float32",
           batch_dim_axis |-> 0, time_dim_axis |-> None]

Src(data) == [output |-> data]

SourceChoices ==
  {<<>>, <<Src(BatchMajor)>>, <<Src(TimeMajor)>>, <<Src(InputData(TRUE))>>, <<Src(NoTime)>>,
   <<Src(BatchMajor), Src(BatchMajor)>>}

Classes == [p |-> "", n |-> "classes"]

\* A dense target with one more axis than the input: frames of feature maps.
Frames == [p |-> "", n |-> "frames"]

FramesData ==
  [shape |-> <<None, FeatDim, FeatDim>>, dim |-> FeatDim, sparse |-> FALSE,
   dtype |-> "float32", batch_dim_axis |-> 0, time_dim_axis |-> 1]

\* out_type of the layer under test: not given, a dim, or a shape with its dim.
OutTypeChoices ==
  {EmptyDict, "dim" :> OutDim, "dim" :> NumClasses,
   ("shape" :> <<None, OutDim>>) @@ ("dim" :> OutDim)}

\* The keyword arguments of the layer under test, as transform_config_dict
\* leaves them.
ContractKwargs(cls, sources, n_out, out_type, target, loss) ==
  ("sources" :> sources)
    @@ (IF DOMAIN out_type # {} THEN ("out_type" :> out_type) ELSE EmptyDict)
    @@ (IF n_out # None THEN ("n_out" :> n_out) ELSE EmptyDict)
    @@ (IF target # NoTarget THEN ("target" :> target) ELSE EmptyDict)
    @@ (IF loss # "" THEN ("loss" :> loss) ELSE EmptyDict)
    @@ (CASE cls = "combine" -> ("kind" :> "add")
          [] cls = "rnn_cell" ->
               ("unit" :> "gru")
                 @@ ("prev_state" :> [tuple |-> FALSE,
                                      blocks |-> <<zeros(<<BatchSize, OutDim>>, "float32")>>])
          [] cls = "rec" -> ("unit" :> "lstm")
          [] OTHER -> EmptyDict)

\* The network the layer under test belongs to: extern_data holds the dense
\* input "data" and the sparse target "classes".
ContractNet ==
  [extern_data |-> [data |-> InputData(FALSE), classes |-> InputData(TRUE),
                    frames |-> FramesData],
   default_input |-> "data", default_target |-> "classes",
   layers |-> EmptyDict, train_flag |-> train_flag]

InitLayer ==
  /\ scenario = "plain"
  /\ unit = Unit("plain", NoneV)
  /\ srcSparse = FALSE
  /\ seq_len = [b \in 1..BatchSize |-> 0]
  /\ direction = None
  /\ rnn_unit = ""
  /\ InitUnroller("idle")
  /\ RegistryInUse
  /\ HiddenIdle
  /\ GraphIdle
  /\ DecoderIdle
  /\ lcls \in ContractClasses
  /\ \E sources \in SourceChoices, n_out \in {None, OutDim, NumClasses}, out_type \in OutTypeChoices,
        target \in {NoTarget, Classes, Frames}, loss \in {"", "ce", "ctc"} :
       lkwargs = ContractKwargs(lcls, sources, n_out, out_type, target, loss)
  /\ InitContract("new")

\* layer_class.get_out_data_from_opts(**layer_desc) is called; what
\* network.get_extern_data marked on the way stays marked.
call_get_out_data_from_opts ==
  /\ lpc = "new"
  /\ \E output \in {get_out_data_from_opts(lcls, ContractNet, lkwargs)} :
       /\ inferred' = output
       /\ used_data_keys' = used_data_keys \cup output.marked
  /\ lpc' = "inferred"
  /\ UNCHANGED <<unroller, registry, hidden, graph, decoder, lcls, lkwargs, train_flag, constructed, bound>>

\* layer_class(output=output, **layer_desc) is called with the inferred output.
call_layer_class_init ==
  /\ lpc = "inferred"
  /\ inferred.err = ""
  /\ \E layer \in {construct(lcls, ContractNet, ("output" :> inferred.data) @@ lkwargs)} :
       /\ constructed' = layer
       /\ used_data_keys' = used_data_keys \cup layer.marked
  /\ lpc' = "constructed"
  /\ UNCHANGED <<unroller, registry, hidden, graph, decoder, lcls, lkwargs, train_flag, inferred, bound>>

\* Data.ndim_dense: the rank without batch, counting the class axis of a
\* sparse tensor.
ndim_dense(data) == Len(data.shape) + (IF data.sparse THEN 1 ELSE 0)

\* Loss._check_init without the check of the dim.
_check_init_rank_only(loss, output, target) ==
  IF ndim_dense(target) # ndim_dense(output)
    THEN "AssertionError: Number of dimensions missmatch"
  ELSE ""

\* Loss._check_init(): "" or the assertion that fails.
_check_init(loss, output, target) ==
  IF ndim_dense(target) # ndim_dense(output)
    THEN "AssertionError: Number of dimensions missmatch"
  ELSE IF get_auto_output_layer_dim(loss, target.dim) # output.dim
    THEN "AssertionError: Expected output dim"
  ELSE ""

\* Loss.init(output, output_with_activation, target): "" or the error raised.
\* have_seq_lens tells whether output.size_placeholder has the entry 0.
Loss_init(loss, output, target, have_seq_lens) ==
  IF ~have_seq_lens THEN "KeyError: 0"
  ELSE IF target.err # "" THEN "AttributeError: size_placeholder"
  ELSE IF output.time_dim_axis # None
          /\ <<output.time_dim_axis, output.batch_dim_axis>> \notin {<<0, 1>>, <<1, 0>>}
    THEN "AssertionError: output time-batch-dim unexpected"
  ELSE _check_init(loss, output, target.data)

\* output.size_placeholder[0] of the constructed layer: with a dynamic first
\* axis the sizes were copied from the source or the target; without one the
\* entry is there or not, depending on where the class took its sizes from.
HaveSeqLens(output) ==
  IF Len(output.shape) >= 1 /\ output.shape[1] = None THEN {TRUE} ELSE BOOLEAN

\* layer.get_loss_value() of the constructed layer, the first time: _init_loss
\* binds the loss to the layer's output and the value of its target.
get_loss_value ==
  /\ lpc = "constructed"
  /\ constructed.err = ""
  /\ Get(lkwargs, "loss", "") # ""
  /\ \E have_seq_lens \in HaveSeqLens(constructed.data),
        target \in {_static_get_target_value(_target_of(ContractNet, lkwargs), ContractNet, TRUE)} :
       /\ bound' = Res(Loss_init(lkwargs["loss"], constructed.data, target, have_seq_lens),
                       constructed.data, target.marked)
       /\ used_data_keys' = used_data_keys \cup target.marked
  /\ lpc' = "bound"
  /\ UNCHANGED <<unroller, registry, hidden, graph, decoder, lcls, lkwargs, train_flag, inferred, constructed>>

NextLayer ==
  \/ call_get_out_data_from_opts
  \/ call_layer_class_init
  \/ get_loss_value

SpecLayer == InitLayer /\ [][NextLayer]_vars

\* ----------------------------- layers over sources: concatenation, dropout
\* Number of layers constructed over the source layers in one run.
MaxNewLayers == 2

\* A Data object: its feature dimension, its placeholder (a term; "" is None)
\* and the size_placeholder dict it refers to (0 is None).  A dict maps the
\* axis 0 (time, without batch) to the length of the sequences.
DataObj(dim, placeholder, sp) == [dim |-> dim, placeholder |-> placeholder, sp |-> sp]

\* The objects as they are when a constructor starts, and the expressions
\* (cache keys) it builds.
Heap0 ==
  [data |-> data_heap, size |-> size_heap, cache |-> concat_sources_dropout_cache,
   built |-> <<>>]

alloc_dict(h, sizes) == [h EXCEPT !.size = Append(@, sizes)]

alloc_data(h, d) == [h EXCEPT !.data = Append(@, d)]

\* Data.copy(): a new Data object with the same placeholder and a dict of its
\* own with the same entries.  The new object is the last of the heap.
Data_copy(h, id) ==
  IF h.data[id].sp = 0 THEN alloc_data(h, h.data[id])
  ELSE alloc_data(alloc_dict(h, h.size[h.data[id].sp]),
                  [h.data[id] EXCEPT !.sp = Len(h.size) + 1])

\* The value of a Data object: its fields with the entries of its dict.
Snapshot(h, id) ==
  [dim |-> h.data[id].dim, placeholder |-> h.data[id].placeholder,
   sizes |-> IF h.data[id].sp = 0 THEN EmptyDict ELSE h.size[h.data[id].sp]]

\* tf.concat(values) over the placeholders of the sources, in their order.
RECURSIVE JoinTerms(_)
JoinTerms(terms) ==
  IF Len(terms) = 1 THEN terms[1] ELSE terms[1] \o "," \o JoinTerms(Tail(terms))

tf_concat(terms) == "concat(" \o JoinTerms(terms) \o ")"

\* network.cond_on_train(fn_train, fn_eval) with fn_train = tf.nn.dropout of
\* the placeholder with keep_prob = 1 - dropout (the rate in tenths).
dropout_on_train(x, rate) == "cond(dropout(" \o x \o "," \o ToString(rate) \o ")," \o x \o ")"

RECURSIVE SumDims(_)
SumDims(outs) == IF outs = <<>> THEN 0 ELSE Head(outs).dim + SumDims(Tail(outs))

\* concat_sources for two or more sources that are not in the cache, lines
\* 443-461: the concatenation gets a copy of the first source's dict, the
\* cache gets a copy of the result.
concat_sources_build(h, src_layers) ==
  LET outs == [j \in 1..Len(src_layers) |-> h.data[net_layers[src_layers[j]].output]]
      terms == [j \in 1..Len(src_layers) |-> outs[j].placeholder]
      h1 == alloc_data(alloc_dict(h, h.size[outs[1].sp]),
                       DataObj(SumDims(outs), tf_concat(terms), Len(h.size) + 1))
      h2 == Data_copy(h1, Len(h1.data))
  IN  IF \E j \in 1..Len(outs) : outs[j].placeholder = ""
        THEN [h |-> h, data |-> 0, err |-> "AttributeError"]
      ELSE IF outs[1].sp = 0 THEN [h |-> h, data |-> 0, err |-> "AttributeError"]
      ELSE [h |-> [h2 EXCEPT !.cache = (<<src_layers, 0>> :> Len(h2.data)) @@ @,
                             !.built = Append(@, <<src_layers, 0>>)],
            data |-> Len(h1.data), err |-> ""]

\* concat_sources that never looks into the cache.
concat_sources_in_always_builds(h, src_layers) ==
  IF Len(src_layers) = 0 THEN [h |-> h, data |-> 0, err |-> "AssertionError: need source layers"]
  ELSE IF Len(src_layers) = 1
    THEN [h |-> h, data |-> net_layers[src_layers[1]].output, err |-> ""]
  ELSE concat_sources_build(h, src_layers)

\* concat_sources(src_layers) on the objects of h, lines 433-461: the output
\* of a single source itself; else a
\* copy of the cache entry of (tuple(src_layers), 0.0), or the concatenation.
concat_sources_in(h, src_layers) ==
  IF Len(src_layers) = 0 THEN [h |-> h, data |-> 0, err |-> "AssertionError: need source layers"]
  ELSE IF Len(src_layers) = 1
    THEN [h |-> h, data |-> net_layers[src_layers[1]].output, err |-> ""]
  ELSE IF <<src_layers, 0>> \in DOMAIN h.cache
    THEN [h |-> Data_copy(h, h.cache[<<src_layers, 0>>]),
          data |-> Len(h.data) + 1, err |-> ""]
  ELSE concat_sources_build(h, src_layers)

\* The dropout rate concat_sources_with_opt_dropout applies, lines 496-498.
effective_dropout(dropout) == IF train_flag = "False" THEN 0 ELSE dropout

\* concat_sources_with_opt_dropout, lines 499-515, on the result c of
\* concat_sources: the placeholder of that very Data object is replaced.
apply_dropout(c, src_layers, rate) ==
  IF c.err # "" \/ rate = 0 THEN c
  ELSE IF <<src_layers, rate>> \in DOMAIN c.h.cache
    THEN [h |-> Data_copy(c.h, c.h.cache[<<src_layers, rate>>]),
          data |-> Len(c.h.data) + 1, err |-> ""]
  ELSE IF ~(0 < rate /\ rate < 10)
    THEN [h |-> c.h, data |-> 0, err |-> "AssertionError"]
  ELSE \* data.placeholder = network.cond_on_train(fn_train, fn_eval)
       [h |-> [Data_copy([c.h EXCEPT !.data[c.data].placeholder = dropout_on_train(@, rate)],
                         c.data)
                 EXCEPT !.cache = (<<src_layers, rate>> :> Len(c.h.data) + 1) @@ @,
                        !.built = Append(@, <<src_layers, rate>>)],
        data |-> c.data, err |-> ""]

concat_sources_with_opt_dropout(h, src_layers, dropout) ==
  apply_dropout(concat_sources_in(h, src_layers), src_layers, effective_dropout(dropout))

\* The options of a layer: dropout (in tenths), activation ("" is None), and
\* for a slice layer axis_kind, slice_start, slice_end, slice_step.
LayerOpts(dropout, activation, axis_kind, slice_start, slice_end, slice_step) ==
  [dropout |-> dropout, activation |-> activation, axis_kind |-> axis_kind,
   slice_start |-> slice_start, slice_end |-> slice_end, slice_step |-> slice_step]

\* CopyLayer.__init__, lines 535-537: self.output = self.input_data.
CopyLayer_output(c) == [h |-> c.h, input_data |-> c.data, output |-> c.data, err |-> c.err]

\* ActivationLayer.__init__, lines 556-564: self.output.placeholder =
\* self.output_before_activation.y, on the output CopyLayer.__init__ has set.
ActivationLayer_output(c, activation) ==
  IF c.err # "" THEN CopyLayer_output(c)
  ELSE [h |-> [c.h EXCEPT !.data[c.data].placeholder =
                            IF activation # "" THEN activation \o "(" \o @ \o ")" ELSE @],
        input_data |-> c.data, output |-> c.data, err |-> ""]

Max(a, b) == IF a >= b THEN a ELSE b

Min(a, b) == IF a <= b THEN a ELSE b

\* SliceLayer.__init__, lines 607-619, on the length n of the time axis.
sliced_length(n, opts) ==
  LET n1 == IF opts.slice_start # None /\ opts.slice_start # 0
            THEN Max(0, n - opts.slice_start) ELSE n
      n2 == IF opts.slice_end # None /\ opts.slice_end # 0
            THEN Min(MaxT - opts.slice_end, n1) ELSE n1
  IN  IF opts.slice_step # None /\ opts.slice_step # 0 THEN n2 \div opts.slice_step ELSE n2

\* SliceLayer.__init__, lines 601-622: the output is the Data of
\* get_out_data_from_opts; it gets the dict of input_data (line 606, the
\* object itself), whose entry of the time axis is then assigned.
SliceLayer_output(c, opts) ==
  IF c.err # "" THEN CopyLayer_output(c)
  ELSE IF opts.axis_kind = "T" /\ (opts.slice_start < None \/ opts.slice_end < None)
    THEN [h |-> c.h, input_data |-> c.data, output |-> 0, err |-> "AssertionError"]
  ELSE LET sp == c.h.data[c.data].sp
           h1 == alloc_data(c.h, DataObj(c.h.data[c.data].dim,
                                         "slice(" \o c.h.data[c.data].placeholder \o ")", sp))
       IN  [h |-> IF opts.axis_kind = "T" /\ sp # 0
                  THEN [h1 EXCEPT !.size[sp] = [@ EXCEPT ![0] = sliced_length(@, opts)]]
                  ELSE h1,
            input_data |-> c.data, output |-> Len(h1.data), err |-> ""]

\* layer_class(**layer_desc) of the class cls over the sources.
layer_class_init(cls, h, src_layers, opts) ==
  CASE cls = "copy" ->
         CopyLayer_output(concat_sources_with_opt_dropout(h, src_layers, opts.dropout))
    [] cls = "activation" ->
         ActivationLayer_output(concat_sources_with_opt_dropout(h, src_layers, opts.dropout),
                                opts.activation)
    [] cls = "slice" ->
         SliceLayer_output(concat_sources_with_opt_dropout(h, src_layers, opts.dropout), opts)

\* The network before any layer is constructed: two "source" layers whose
\* outputs have a time axis.
SourceLayer(j) == [cls |-> "source", sources |-> <<>>, input_data |-> 0, output |-> j]

InitGraph ==
  /\ scenario = "plain"
  /\ unit = Unit("plain", NoneV)
  /\ srcSparse = FALSE
  /\ seq_len = [b \in 1..BatchSize |-> 0]
  /\ direction = None
  /\ rnn_unit = ""
  /\ InitUnroller("idle")
  /\ lcls = ""
  /\ lkwargs = EmptyDict
  /\ train_flag \in {"True", "False"}
  /\ used_data_keys = {}
  /\ inferred = NoRes
  /\ constructed = NoRes
  /\ bound = NoRes
  /\ lpc = "idle"
  /\ RegistryInUse
  /\ HiddenIdle
  /\ DecoderIdle
  /\ data_heap = <<DataObj(FeatDim, "x1", 1), DataObj(FeatDim, "x2", 2)>>
  /\ size_heap = <<(0 :> MaxT), (0 :> MaxT - 1)>>
  /\ net_layers = <<SourceLayer(1), SourceLayer(2)>>
  /\ concat_sources_dropout_cache = EmptyDict
  /\ requests = <<>>

\* The source lists of a new layer: any one layer, or the two source layers
\* in either order.
SourceLists == {<<a>> : a \in 1..Len(net_layers)} \cup {<<1, 2>>, <<2, 1>>}

DropoutChoices == {0, 5, 10}

SliceChoices ==
  {LayerOpts(5, "", "T", 1, None, None), LayerOpts(0, "", "T", None, 1, None),
   LayerOpts(0, "", "T", None, None, 2), LayerOpts(0, "", "F", 1, None, None)}

\* TFNetwork.add_layer: the layer is constructed over its sources and put into
\* the network; r is what the constructor of the class made.
add_layer_of(cls, src_layers, opts, r) ==
  /\ Len(requests) < MaxNewLayers
  /\ data_heap' = r.h.data
  /\ size_heap' = r.h.size
  /\ concat_sources_dropout_cache' = r.h.cache
  /\ net_layers' = IF r.err # "" THEN net_layers
                   ELSE Append(net_layers, [cls |-> cls, sources |-> src_layers,
                                            input_data |-> r.input_data, output |-> r.output])
  /\ requests' = Append(requests,
       [cls |-> cls, sources |-> src_layers, opts |-> opts,
        rate |-> effective_dropout(opts.dropout),
        built |-> r.h.built, err |-> r.err, input_data |-> r.input_data,
        returned |-> IF r.input_data = 0 THEN Snapshot(Heap0, 1)
                     ELSE Snapshot(concat_sources_with_opt_dropout(Heap0, src_layers,
                                                                    opts.dropout).h,
                                   r.input_data),
        sources_before |-> [j \in 1..Len(net_layers) |-> Snapshot(Heap0, net_layers[j].output)]])
  /\ UNCHANGED <<unroller, contract, registry, hidden, decoder>>

CopyLayer_init ==
  \E src_layers \in SourceLists : \E dropout \in DropoutChoices :
    \E opts \in {LayerOpts(dropout, "", "", None, None, None)} :
      add_layer_of("copy", src_layers, opts, layer_class_init("copy", Heap0, src_layers, opts))

ActivationLayer_init ==
  \E src_layers \in SourceLists : \E activation \in {"", "tanh"} :
    \E opts \in {LayerOpts(0, activation, "", None, None, None)} :
      add_layer_of("activation", src_layers, opts,
                   layer_class_init("activation", Heap0, src_layers, opts))

SliceLayer_init ==
  \E src_layers \in SourceLists : \E opts \in SliceChoices :
    add_layer_of("slice", src_layers, opts, layer_class_init("slice", Heap0, src_layers, opts))

NextGraph ==
  \/ CopyLayer_init
  \/ ActivationLayer_init
  \/ SliceLayer_init

SpecGraph == InitGraph /\ [][NextGraph]_vars

\* ------------------------------------- the Transformer decoder's position
\* Number of decoder layers, and of calls of the decoder in one run.
MaxDecLayers == 2

MaxCalls == 3

\* self.layers.items(): rf.Sequential names its num_layers layers "0", "1", ...
LayerNames(n) == {ToString(j) : j \in 0..(n - 1)}

\* A scalar int32 tensor, as what it is for each batch entry.
Scalar(x) == [b \in 1..BatchSize |-> x]

\* TransformerDecoderLayer.default_initial_state: the state of the
\* self-attention, here the number of calls it has seen.
TransformerDecoderLayer_default_initial_state == [self_att |-> 0]

\* TransformerDecoder.default_initial_state(batch_dims).
default_initial_state(n) ==
  [pos |-> Scalar(0),
   layers |-> [k \in LayerNames(n) |-> TransformerDecoderLayer_default_initial_state]]

\* single_step_dim, or the spatial dim of a whole sequence with its size
\* tensor (the length of each batch entry).
single_step_dim == [single |-> TRUE, sizes |-> Scalar(1)]

SpatialDim(sizes) == [single |-> FALSE, sizes |-> sizes]

SpatialDims ==
  {single_step_dim}
    \cup {SpatialDim(Scalar(n)) : n \in 1..MaxT}
    \cup {SpatialDim([b \in 1..BatchSize |-> IF b = 1 THEN MaxT ELSE 1])}

\* TransformerDecoderLayer.__call__: a new state with the new state of the
\* self-attention.
TransformerDecoderLayer_call(state, spatial_dim) == [self_att |-> state.self_att + 1]

\* TransformerDecoder.__call__ that hands the position on as it is.
TransformerDecoder_call_keeps_pos(n, state, spatial_dim) ==
  [offset |-> state.pos,
   new_state |->
     [pos |-> state.pos,
      layers |-> [k \in LayerNames(n) |->
                    TransformerDecoderLayer_call(state.layers[k], spatial_dim)]]]

\* TransformerDecoder.__call__(source, spatial_dim, state, encoder): the offset
\* of the positional encoding, and the new state.
TransformerDecoder_call(n, state, spatial_dim) ==
  [offset |-> state.pos,
   new_state |->
     [pos |-> [b \in 1..BatchSize |->
                 state.pos[b] + (IF spatial_dim = single_step_dim THEN 1
                                 ELSE spatial_dim.sizes[b])],
      layers |-> [k \in LayerNames(n) |->
                    TransformerDecoderLayer_call(state.layers[k], spatial_dim)]]]

\* A decoder after its construction.
InitDecoder ==
  /\ scenario = "plain"
  /\ unit = Unit("plain", NoneV)
  /\ srcSparse = FALSE
  /\ seq_len = [b \in 1..BatchSize |-> 0]
  /\ direction = None
  /\ rnn_unit = ""
  /\ InitUnroller("idle")
  /\ lcls = ""
  /\ lkwargs = EmptyDict
  /\ InitContract("idle")
  /\ RegistryInUse
  /\ HiddenIdle
  /\ GraphIdle
  /\ num_layers \in 0..MaxDecLayers
  /\ dec_states = <<>>
  /\ dec_calls = <<>>

\* state = decoder.default_initial_state(batch_dims=...)
call_default_initial_state ==
  /\ dec_states = <<>>
  /\ dec_states' = <<default_initial_state(num_layers)>>
  /\ UNCHANGED <<unroller, contract, registry, hidden, graph, num_layers, dec_calls>>

\* logits, new_state = decoder(source, spatial_dim=..., state=..., encoder=...)
\* on any state there is.
call_decoder ==
  /\ Len(dec_calls) < MaxCalls
  /\ \E s \in 1..Len(dec_states) : \E spatial_dim \in SpatialDims :
       \E r \in {TransformerDecoder_call(num_layers, dec_states[s], spatial_dim)} :
         /\ dec_states' = Append(dec_states, r.new_state)
         /\ dec_calls' = Append(dec_calls,
              [state |-> s, given |-> dec_states[s], spatial_dim |-> spatial_dim,
               offset |-> r.offset])
  /\ UNCHANGED <<unroller, contract, registry, hidden, graph, num_layers>>

NextDecoder ==
  \/ call_default_initial_state
  \/ call_decoder

SpecDecoder == InitDecoder /\ [][NextDecoder]_vars

\* ------------------------------------------------------------ properties
\* The numbers of a stacked result, per step and batch entry.
ValuesOf(ta) == [t \in 1..Len(ta) |-> ta[t].v]

\* The initial_output option of a layer of the unit, NoneV if it has none.
InitialOutputOf(n) == Get(Get(unit, n, EmptyDict), "initial_output", NoneV)

\* The output descriptor of the name's template.
TemplateOf(n) == tobj[layer_data_templates[n]].output

\* The template pass returned (construction did not fail in it).
TemplatePassed == pc \notin {"config", "new", "template"} /\ ~(pc = "failed" /\ err.at \in {"config", "template"})

\* The names reachable from "output" through ordinary (unprefixed) references.
OrdinaryRefs(n) ==
  IF n \in DOMAIN unit
  THEN {from_names(unit[n])[j].n :
          j \in {k \in 1..Len(from_names(unit[n])) : from_names(unit[n])[k].p = ""}}
  ELSE {}

RECURSIVE Reach(_, _)
Reach(S, k) ==
  IF k = 0 THEN S ELSE Reach(S \cup UNION {OrdinaryRefs(n) : n \in S}, k - 1)

OrdinaryReach == Reach({"output"}, Len(NameOrder))

\* The carried names that name a layer of the subnetwork: "prev:base:<name>"
\* records the still prefixed "base:<name>" (see C29), which names none.
PlainCarried ==
  {n \in prev_layers_needed : \A j \in 1..Len(NameOrder) : n # "base:" \o NameOrder[j]}

\* C1: the subnetwork {"output": {"class": "combine", "kind": "add", "from":
\* ["prev:output", "src"]}} with initial_output 0 (the int 0, or "zeros"), three
\* steps and src = [1, 2, 3] is constructed without error and yields
\* output = [1, 3, 6].
C1_AccumulatesPrevOutput ==
  (/\ scenario = "acc" /\ ~srcSparse
   /\ InitialOutputOf("output") \in {IntV, StrV("zeros")}
   /\ seq_len = [b \in 1..BatchSize |-> 3])
  => /\ pc # "failed"
     /\ pc = "done" => ValuesOf(result) = <<[b \in 1..BatchSize |-> 1],
                                            [b \in 1..BatchSize |-> 3],
                                            [b \in 1..BatchSize |-> 6]>>

\* C2: for a specification whose only cycles pass through a "prev:" reference
\* (output from [prev:output]; s from [data, prev:s]; output from [prev:output,
\* src]) the template phase returns: it does not end in an error.
C2_PrevCycleTemplateReturns ==
  (scenario \in {"self", "s_self", "acc"} /\ ~srcSparse)
  => ~(pc = "failed" /\ err.at = "template")

\* C3: without ordinary cycles every name gets one TemplateLayer whose shape is
\* inferred once and which stays the node of the template map, and one layer of
\* the step graph, whether it is referenced as "name" or as "prev:name".
C3_ConstructedOncePerScope ==
  scenario # "cycle"
  => /\ \A n \in DOMAIN calls :
          calls[n].template <= 1 /\ calls[n].infer <= 1 /\ calls[n].construct <= 1
     /\ \A id \in 1..Len(tobj) : layer_data_templates[tobj[id].name] = id

\* C4: the loop runs exactly N = max(seq_len) iterations (also for the shorter
\* sequences of the batch, and none for N = 0); the result has N elements, and
\* element t is the "output" value of step t.
C4_LoopRunsMaxLenSteps ==
  /\ pc = "loop" => (i <= MaxLen /\ Len(acc_ta) = i)
  /\ pc = "done" =>
       /\ i = MaxLen
       /\ Len(result) = MaxLen
       /\ \A t \in 1..Len(result) :
            /\ result[t].shape = batch_shape(TemplateOf("output"), BatchSize)
            /\ scenario = "plain" => result[t].v = x_ta(t - 1).v
            /\ scenario = "diamond" =>
                 result[t].v = [b \in 1..BatchSize |-> 2 * x_ta(t - 1).v[b]]

C4_Witness ==
  /\ pc = "done" /\ scenario = "plain"
  /\ Len(result) = MaxT
  /\ \E b \in 1..BatchSize : seq_len[b] < MaxT

\* C5: at step 0 the value bound to "prev:name" of a dense carried name without
\* initial_output is all zero, with the batch and the template's shape and the
\* template's dtype; an explicit initial_output (a tensor, "zeros", "ones") is
\* the value instead, and it is what the first step computes with.
C5_InitialOutputOfDenseCarry ==
  /\ (pc \in {"build", "loop"} /\ i = 0) =>
       \A n \in prev_layers_needed :
         ~TemplateOf(n).sparse =>
           /\ InitialOutputOf(n) \in {NoneV, StrV("zeros")} =>
                prev_outputs[n] = [shape |-> <<BatchSize>> \o TemplateOf(n).shape,
                                       dtype |-> TemplateOf(n).dtype,
                                       v |-> [b \in 1..BatchSize |-> 0]]
           /\ InitialOutputOf(n) = StrV("ones") =>
                prev_outputs[n] = [shape |-> <<BatchSize>> \o TemplateOf(n).shape,
                                       dtype |-> TemplateOf(n).dtype,
                                       v |-> [b \in 1..BatchSize |-> 1]]
           /\ InitialOutputOf(n).t = "tensor" => prev_outputs[n] = InitialOutputOf(n).v
  /\ (pc = "done" /\ scenario \in {"prevonly", "carry"} /\ Len(result) > 0) =>
       /\ InitialOutputOf("s") = NoneV => result[1].v = x_ta(0).v
       /\ InitialOutputOf("s") = StrV("ones") =>
            result[1].v = [b \in 1..BatchSize |-> 1 + x_ta(0).v[b]]

C5_Witness ==
  /\ pc = "loop" /\ i = 0 /\ scenario = "chain"
  /\ InitialOutputOf("a") = StrV("ones")
  /\ prev_layers_needed = {"a", "b"}
  /\ ~TemplateOf("b").sparse
  /\ prev_outputs["b"].v = [b \in 1..BatchSize |-> 0]
  /\ prev_outputs["a"].v = [b \in 1..BatchSize |-> 1]

\* C6: a carried name with a sparse template and no initial_output makes
\* construction fail when the initial loop variables are made, after the
\* template pass and before the step graph is built or any step runs.
C6_SparseCarryNeedsInitialOutput ==
  (/\ TemplatePassed /\ pc # "init"
   /\ \E n \in prev_layers_needed \cap DOMAIN layer_data_templates :
        TemplateOf(n).sparse /\ InitialOutputOf(n) = NoneV)
  => /\ pc = "failed"
     /\ err = [msg |-> "Exception: initial output for sparse data", at |-> "init"]
     /\ i = 0 /\ acc_ta = <<>> /\ DOMAIN layers = {} /\ DOMAIN prev_layers = {}

C6_Witness ==
  /\ scenario = "carry" /\ srcSparse /\ InitialOutputOf("s") = NoneV
  /\ "s" \in prev_layers_needed /\ TemplateOf("s").sparse
  /\ pc = "failed"
  /\ err = [msg |-> "Exception: initial output for sparse data", at |-> "init"]

C8_OrdinaryCycleLeavesNoNode ==
  (scenario = "cycle" /\ pc \notin {"config", "new", "template"})
  => /\ pc = "failed"
     /\ err = [msg |-> "cycle", at |-> "template"]
     /\ {"A", "B"} \cap DOMAIN layer_data_templates = {}
     /\ {"A", "B"} \cap DOMAIN layers = {}

\* C9: for every layer class, the descriptor get_out_data_from_opts returns
\* agrees in shape, dim, sparse, batch_dim_axis and time_dim_axis with the
\* output the layer has after its constructor, for the same options and sources.
C9_InferAgreesWithConstruction ==
  (lpc = "constructed" /\ constructed.err = "")
  => /\ inferred.data.shape = constructed.data.shape
     /\ inferred.data.dim = constructed.data.dim
     /\ inferred.data.sparse = constructed.data.sparse
     /\ inferred.data.batch_dim_axis = constructed.data.batch_dim_axis
     /\ inferred.data.time_dim_axis = constructed.data.time_dim_axis

\* C10: get_out_data_from_opts changes no graph state: after the call the set of
\* external data keys marked as used is what it was before (empty).
C10_InferChangesNoGraphState ==
  lpc = "inferred" => used_data_keys = {}

\* The number the driving input holds for batch entry b at step t (1-based);
\* zero outside the sequence.
XAt(b, t) == IF t >= 1 /\ t <= seq_len[b] THEN _get_input[t][b] ELSE 0

RECURSIVE SumX(_, _, _)
SumX(b, lo, hi) == IF lo > hi THEN 0 ELSE XAt(b, lo) + SumX(b, lo + 1, hi)

\* What the rec layer of the model emits at step t when it runs in time order
\* (from = -1: step t sees steps 1..t) or against it (from = 1: step t sees the
\* steps t..length): the cell sums what it has seen, "carry" adds the
\* neighbouring step's input, "base" adds the base layer's 7.
ExpectedAt(b, t, from) ==
  IF rnn_unit # "" THEN (IF from = 1 THEN SumX(b, t, seq_len[b]) ELSE SumX(b, 1, t))
  ELSE IF scenario = "carry" THEN XAt(b, t) + XAt(b, t + from)
  ELSE XAt(b, t) + BaseValue.v[b]

\* C11: with direction -1 the recurrence runs against time for every variant
\* of the cell (RNNCell, fused cell, native op, subnetwork): the input is
\* reversed before the variant runs and its result is reversed again, so
\* step t of the output has seen the steps t..length of its sequence; with
\* direction None or 1 nothing is reversed and step t has seen steps 1..t.
C11_BackwardReversesInputAndOutput ==
  (pc = "done" /\ ~srcSparse)
  => \A b \in 1..BatchSize : \A t \in 1..seq_len[b] :
       result[t].v[b] = ExpectedAt(b, t, IF direction = 0 - 1 THEN 1 ELSE 0 - 1)

\* C12: a lookup of a tag that is not registered fails with an exception that
\* names the tag; it returns no class, and the table has no entry for the tag.
C12_UnknownTagFailsNamingIt ==
  \A j \in 1..Len(lookups) :
    lookups[j].name \notin LayerClassDict =>
      /\ lookups[j].err = "Exception: unknown layer class " \o lookups[j].name
      /\ lookups[j].cls = ""
      /\ lookups[j].name \notin DOMAIN _LayerClassDict

C12_Witness ==
  /\ Len(lookups) = 2
  /\ lookups[1].name = "nope" /\ lookups[1].err # ""
  /\ lookups[2].name = "forward" /\ lookups[2].cls = "linear"

\* C13: _init_layer_class_dict runs once, at the first lookup; whatever is
\* looked up afterwards (found or not), the table stays the one that run made,
\* in which every tag stands for the one class of that layer_class.
C13_RegistryPopulatedOnce ==
  /\ populations <= 1
  /\ populations = 0 => (lookups = <<>> /\ DOMAIN _LayerClassDict = {})
  /\ populations = 1 =>
       /\ DOMAIN _LayerClassDict = LayerClassDict
       /\ \A tag \in LayerClassDict : _LayerClassDict[tag] = LayerClassOf(tag)
  /\ \A j \in 1..Len(lookups) :
       lookups[j].err = "" => lookups[j].cls = LayerClassOf(lookups[j].name)

C13_Witness ==
  /\ Len(lookups) = MaxLookups /\ populations = 1
  /\ lookups[1].err # "" /\ lookups[2].err = "" /\ lookups[3].err # ""

\* The name of the node get_layer returned.
NameOfNode(obj) == IF obj.t = "tmpl" THEN tobj[obj.id].name ELSE obj.n

\* What the "from" option of a layer asks for, read off the option itself: the
\* external input "data" if there is none, the one name if it is a str, the
\* names of the list otherwise, each without the entries "none".
ExpectedSources(desc) ==
  IF "from" \notin DOMAIN desc THEN <<"data">>
  ELSE IF desc["from"].t = "str"
    THEN (IF desc["from"].s.n = "none" THEN <<>> ELSE <<desc["from"].s.n>>)
  ELSE LET l == desc["from"].l
           keep == {j \in 1..Len(l) : l[j].n # "none"}
           \* the j-th kept index, in the order of the list
           nth(j) == CHOOSE k \in keep : Cardinality({m \in keep : m < k}) = j - 1
       IN  [j \in 1..Cardinality(keep) |-> l[nth(j)].n]

\* transform_config_dict of frame f has passed the first names of its "from"
\* to get_layer, in order, and holds the nodes it got; when it is done the
\* options have "sources" (one node per name) and no "from".
SourcesAsExpected(f, expected) ==
  /\ f.k = Len(f.srcs) + 1
  /\ Len(f.srcs) <= Len(expected)
  /\ \A j \in 1..Len(f.srcs) : NameOfNode(f.srcs[j]) = expected[j]
  /\ f.k <= Len(f.names) => (f.k <= Len(expected) /\ f.names[f.k].n = expected[f.k])
  /\ f.k > Len(f.names) =>
       /\ Len(f.srcs) = Len(expected)
       /\ "from" \notin DOMAIN layer_desc(f)
       /\ Len(layer_desc(f)["sources"]) = Len(expected)

\* C14: transform_config_dict removes "from" and sets "sources" to the nodes
\* get_layer returned for the names of "from", one per name and in that order,
\* without the names "none"; a single name counts as a list of one, and without
\* "from" the one external input "data" is resolved.
C14_SourcesFollowFrom ==
  \A j \in 1..Len(stack) :
    stack[j].name # RootName => SourcesAsExpected(stack[j], ExpectedSources(stack[j].desc))

C14_Witness ==
  /\ scenario = "none" /\ pc = "build" /\ Len(stack) = 2
  /\ Top.name = "output" /\ ~Asking
  /\ Len(from_names(Top.desc)) = 3
  /\ Len(Top.srcs) = 1 /\ NameOfNode(Top.srcs[1]) = "src"

\* The nodes frame f got for its "base:" names are layers of the enclosing graph.
BaseNodesOf(names, srcs) ==
  \A j \in 1..Len(srcs) :
    /\ names[j].p = "base" => srcs[j] = BaseObj(names[j].n)
    /\ srcs[j] = BaseObj(names[j].n) => names[j].p \in {"base", "prev:base"}

\* C15: in the template pass and in the step graph, the node of a "base:name"
\* reference is the layer "name" of the enclosing graph, also when the unit has
\* a layer of that name, and its value is the same in every step; a "base:"
\* name the enclosing graph cannot resolve ends construction before the loop
\* starts, with no layer in the step graph.
C15_BaseResolvedInEnclosingGraph ==
  /\ \A j \in 1..Len(stack) : BaseNodesOf(stack[j].names, stack[j].srcs)
  /\ \A n \in DOMAIN layers : BaseNodesOf(src_names(net_dict[n]), layers[n].sources)
  /\ (pc = "done" /\ scenario \in {"base", "base_shadow"}) =>
       \A t \in 1..Len(result) :
         result[t].v = [b \in 1..BatchSize |-> x_ta(t - 1).v[b] + BaseValue.v[b]]
  /\ ~(BaseRefs(unit) \subseteq DOMAIN ParentLayers) =>
       /\ pc \in {"config", "failed"}
       /\ pc = "failed" => err.at \in {"config", "template"}
       /\ DOMAIN layers = {} /\ i = 0 /\ acc_ta = <<>>

C15_Witness ==
  /\ scenario = "base_shadow" /\ pc = "done" /\ Len(result) = MaxT
  /\ layers["output"].sources = <<LayerObj("enc"), BaseObj("enc")>>
  /\ "enc" \in DOMAIN layer_data_templates

\* The sources that report a state of rank 2, in source order.
IsRank2State(h) == h.t = "tensor" /\ h.ndims = 2

\* What the call returns when it does not fail: None without a reporting
\* source, the one state as it is, or the concatenation in source order.
ExpectedHiddenState(states) ==
  IF states = <<>> THEN NoState
  ELSE IF Len(states) = 1 THEN states[1]
  ELSE [t |-> "tensor", ndims |-> 2,
        parts |-> [j \in 1..Len(states) |-> states[j].parts[1]]]

\* C16 as stated: the call returns the concatenation, in source order, of the
\* states of the sources that report one, and it fails only if no source
\* reports a state of rank 2.
C16_FailsOnlyWithoutRank2State ==
  hs_result.called =>
    /\ hs_result.err # "" => ~(\E j \in 1..Len(hs_sources) : IsRank2State(hs_sources[j]))
    /\ hs_result.err = "" => hs_result.h = ExpectedHiddenState(SelectSeq(hs_sources, IsState))

\* C16, amended: the call fails exactly if some source raises or reports a
\* state whose rank is not 2 (whatever the other sources report); otherwise
\* it returns None if no source reports a state, the one reported state as it
\* is, or the concatenation of the reported states in source order.
C16_FailsOnAnyStateOfWrongRank ==
  hs_result.called =>
    /\ hs_result.err # "" <=>
         \E j \in 1..Len(hs_sources) : hs_sources[j] # NoState /\ ~IsRank2State(hs_sources[j])
    /\ hs_result.err = "" =>
         hs_result.h = ExpectedHiddenState(SelectSeq(hs_sources, IsRank2State))

C16_Witness ==
  /\ hs_result.called /\ hs_result.err = ""
  /\ hs_sources = <<StateOf("h2", 2), NoState, StateOf("h1", 2)>>
  /\ hs_result.h.parts = <<"h2", "h1">>

\* The value of the target of the layer under test.
TargetOfLayer ==
  _static_get_target_value(_target_of(ContractNet, lkwargs), ContractNet, FALSE)

\* Output and target differ in dense rank, or the output dim is not the dim
\* the loss expects for the target.
LossMismatch(loss, output, target) ==
  \/ Len(target.shape) + (IF target.sparse THEN 1 ELSE 0)
       # Len(output.shape) + (IF output.sparse THEN 1 ELSE 0)
  \/ output.dim # (IF loss = "ctc" THEN target.dim + 1 ELSE target.dim)

\* C17: when the loss is bound to the output of a constructed layer and to its
\* target, and output and target differ in dense rank or the output dim is
\* not the dim the loss expects (target dim, or target dim + 1 for CTC), the
\* binding raises an error; the layer had been constructed without one.
C17_MismatchRaisedAtBinding ==
  (lpc = "bound" /\ TargetOfLayer.err = ""
     /\ LossMismatch(lkwargs["loss"], constructed.data, TargetOfLayer.data))
  => /\ bound.err # ""
     /\ constructed.err = ""

C17_Witness ==
  /\ lpc = "bound" /\ lcls = "linear"
  /\ lkwargs["loss"] = "ctc" /\ Get(lkwargs, "n_out", None) = NumClasses
  /\ constructed.data.dim = NumClasses
  /\ TargetOfLayer.data.dim = NumClasses
  /\ bound.err = "AssertionError: Expected output dim"

\* The declared n_out and out_type of the layer under test.
DeclaredNOut == Get(lkwargs, "n_out", None)

DeclaredOutType == Get(lkwargs, "out_type", EmptyDict)

\* n_out and out_type["dim"] are both declared and differ.
DeclaredDimsDiffer ==
  /\ DeclaredNOut # None
  /\ "dim" \in DOMAIN DeclaredOutType
  /\ DeclaredOutType["dim"] # DeclaredNOut

\* The descriptor does not have the declared dim or shape.
ConflictsWithDeclared(data) ==
  \/ DeclaredNOut # None /\ data.dim # DeclaredNOut
  \/ "dim" \in DOMAIN DeclaredOutType /\ data.dim # DeclaredOutType["dim"]
  \/ "shape" \in DOMAIN DeclaredOutType /\ data.shape # DeclaredOutType["shape"]

\* The classes whose get_out_data_from_opts hands n_out and out_type to the
\* default inference.
UsesDefaultInference(cls) == cls \in {"linear", "softmax", "rec", "combine"}

\* C18 as stated: n_out different from out_type["dim"] fails in the inference;
\* an output descriptor given to the constructor that conflicts with n_out or
\* out_type fails in the constructor; no constructed layer has an output that
\* conflicts with its declared dim or shape.
C18_DeclaredConflictFailsInInference ==
  /\ (lpc # "new" /\ DeclaredDimsDiffer) => inferred.err # ""
  /\ (lpc \in {"constructed", "bound"} /\ ConflictsWithDeclared(inferred.data))
       => constructed.err # ""
  /\ (lpc \in {"constructed", "bound"} /\ constructed.err = "")
       => ~ConflictsWithDeclared(constructed.data)

\* C18, amended: n_out different from out_type["dim"] fails in the inference of
\* the classes that use the default inference, and for every class at the
\* latest in the constructor; an output descriptor given to the constructor
\* that conflicts with n_out or out_type fails in the constructor; no
\* constructed layer has an output that conflicts with its declared dim or shape.
C18_DeclaredConflictIsRejected ==
  /\ (lpc # "new" /\ DeclaredDimsDiffer /\ UsesDefaultInference(lcls)) => inferred.err # ""
  /\ (lpc \in {"constructed", "bound"} /\ DeclaredDimsDiffer) => constructed.err # ""
  /\ (lpc \in {"constructed", "bound"} /\ ConflictsWithDeclared(inferred.data))
       => constructed.err # ""
  /\ (lpc \in {"constructed", "bound"} /\ constructed.err = "")
       => ~ConflictsWithDeclared(constructed.data)

C18_Witness ==
  /\ lpc = "constructed" /\ lcls = "copy"
  /\ DeclaredNOut = OutDim /\ DeclaredOutType = ("dim" :> NumClasses)
  /\ inferred.err = "" /\ inferred.data.dim = FeatDim
  /\ constructed.err = "AssertionError: output.dim == n_out"

\* C19: in the template phase, resolving a reference "prev:name" records the
\* name in prev_layers_needed and does not resolve the name recursively: no
\* template is created and no layer construction is started for it.
C19_PrevRecordsWithoutRecursing ==
  [][(pc = "template" /\ Asking /\ Asked.p = "prev")
       => /\ Asked.n \in prev_layers_needed'
          /\ calls' = calls
          /\ tobj' = tobj
          /\ Len(stack') <= Len(stack)]_vars

\* The state of cell "c" of scenario "cells" after t steps: its initial ones
\* plus the inputs it has seen; and the state of cell "output" above it.
StateOfC(b, t) == 1 + SumX(b, 1, t)

RECURSIVE StateOfOutput(_, _)
StateOfOutput(b, t) == IF t = 0 THEN 0 ELSE StateOfOutput(b, t - 1) + StateOfC(b, t)

\* C20: in every step the flat lists of carried values have one entry per name
\* of prev_layers_needed and of layers_with_hidden_state, in sorted name
\* order; the value bound to "prev:n" (the prev_state given to n) is n's
\* initial value in step 0, and in step i + 1 the output (hidden state) of
\* layer n realized in step i, so that values of different names are never
\* exchanged.
C20_CarriedValuesAreThoseOfLastStep ==
  pc = "loop" =>
    /\ Len(net_vars.outputs) = Cardinality(prev_layers_needed)
    /\ Len(net_vars.states) = Cardinality(layers_with_hidden_state)
    /\ DOMAIN prev_outputs = prev_layers_needed
    /\ DOMAIN prev_states = layers_with_hidden_state
    /\ \A n \in layers_with_hidden_state :
         net_dict_with_prev_state[n]["prev_state"] = prev_states[n]
    /\ i = 0 =>
         /\ \A n \in prev_layers_needed :
              \/ InitialOutputOf(n).t = "tensor" /\ prev_outputs[n] = InitialOutputOf(n).v
              \/ /\ InitialOutputOf(n).t # "tensor"
                 /\ prev_outputs[n].shape = <<BatchSize>> \o TemplateOf(n).shape
                 /\ prev_outputs[n].v =
                      [b \in 1..BatchSize |-> IF InitialOutputOf(n) = StrV("ones") THEN 1 ELSE 0]
         /\ scenario = "cells" =>
              /\ prev_states["c"].blocks = <<ones(<<BatchSize, FeatDim>>, "float32")>>
              /\ prev_states["output"].blocks = <<zeros(<<BatchSize, FeatDim>>, "float32")>>
    /\ i >= 1 =>
         /\ \A n \in prev_layers_needed : prev_outputs[n] = realized.outputs[n]
         /\ \A n \in layers_with_hidden_state : prev_states[n] = realized.states[n]
         /\ scenario = "chain" =>
              /\ prev_outputs["b"].v = x_ta(i - 1).v
              /\ prev_outputs["a"].v =
                   [b \in 1..BatchSize |-> XAt(b, i) + XAt(b, i - 1)]
         /\ scenario = "cells" =>
              /\ prev_states["c"].blocks[1].v = [b \in 1..BatchSize |-> StateOfC(b, i)]
              /\ prev_states["output"].blocks[1].v =
                   [b \in 1..BatchSize |-> StateOfOutput(b, i)]

C20_Witness ==
  /\ pc = "loop" /\ i = 2 /\ scenario = "chain"
  /\ prev_layers_needed = {"a", "b"}
  /\ prev_outputs["a"].v[1] = 3
  /\ prev_outputs["b"].v[1] = 2

\* C21: the step graph holds a constructed layer for "output" and for every
\* name of prev_layers_needed and layers_with_hidden_state, also for the names
\* "output" does not depend on; reading the next loop variables finds no name
\* missing.
C21_CarriedNamesAreConstructed ==
  /\ pc \in {"loop", "done"} =>
       ({"output"} \cup prev_layers_needed \cup layers_with_hidden_state) \subseteq DOMAIN layers
  /\ pc = "failed" /\ err.at = "build" => err.msg \notin {"KeyError", "AssertionError"}

C21_Witness ==
  /\ scenario = "cell_behind" /\ pc = "loop" /\ i = 1
  /\ prev_layers_needed = {"s"} /\ layers_with_hidden_state = {"c"}
  /\ {"s", "c"} \cap OrdinaryReach = {}
  /\ {"s", "c"} \subseteq DOMAIN layers

\* C22: the steps run in the order 0, 1, 2, ..., each once; step i reads time
\* slice i of the driving input, and time slice i of the target labels if the
\* rec layer has a target and the train flag is not False; otherwise no target
\* slice is bound.
C22_StepsInOrderOnSliceI ==
  pc \in {"loop", "done"} =>
    /\ realized.order = [t \in 1..i |-> t - 1]
    /\ Len(acc_ta) = i
    /\ i >= 1 =>
         /\ realized.data = TensorV(x_ta(i - 1))
         /\ (RecTarget # "" /\ train_flag # "False") =>
              /\ realized.classes.t = "tensor"
              /\ realized.classes.v.v =
                   [b \in 1..BatchSize |->
                      IF i <= seq_len[b] THEN (2 * (i - 1) + 1) % NumClasses ELSE 0]
              /\ RecTarget \in used_data_keys
         /\ (RecTarget = "" \/ train_flag = "False") => realized.classes = NoneV

C22_Witness ==
  /\ pc = "loop" /\ i = 2
  /\ RecTarget = "classes" /\ train_flag = "True"
  /\ seq_len[1] >= 2
  /\ realized.order = <<0, 1>>
  /\ realized.classes.v.v[1] = 3
  /\ realized.data.v.v[1] = 2

\* The initial_state option of a layer of the unit, NoneV if it has none.
InitialStateOf(n) == Get(Get(unit, n, EmptyDict), "initial_state", NoneV)

\* The sizes of the state of an rnn_cell layer of the unit: (c, h) of an LSTM
\* cell, one size otherwise.
StateSizesOf(n) ==
  IF unit[n]["unit"] = "basiclstm" THEN <<unit[n]["n_out"], unit[n]["n_out"]>>
  ELSE <<unit[n]["n_out"]>>

\* C23: for every name of layers_with_hidden_state the state given to step 0
\* is the initial_state option if there is one (a tensor as it is, "zeros" or
\* "ones" as blocks of that number), and otherwise one (batch, d) block of
\* zeros per entry d of the state size of the layer's cell, a tuple of blocks
\* if the state size is a tuple.
C23_InitialStateIsOptionOrZeros ==
  (pc \in {"build", "loop"} /\ i = 0) =>
    \A n \in layers_with_hidden_state :
      /\ InitialStateOf(n).t = "tensor" =>
           prev_states[n] = [tuple |-> FALSE, blocks |-> <<InitialStateOf(n).v>>]
      /\ InitialStateOf(n).t # "tensor" =>
           /\ InitialStateOf(n) \in {NoneV, StrV("zeros"), StrV("ones")}
           /\ prev_states[n].tuple = (Len(StateSizesOf(n)) > 1)
           /\ Len(prev_states[n].blocks) = Len(StateSizesOf(n))
           /\ \A j \in 1..Len(StateSizesOf(n)) :
                prev_states[n].blocks[j] =
                  [shape |-> <<BatchSize, StateSizesOf(n)[j]>>, dtype |-> "float32",
                   v |-> [b \in 1..BatchSize |->
                            IF InitialStateOf(n) = StrV("ones") THEN 1 ELSE 0]]

C23_Witness ==
  /\ scenario = "lstm_cell" /\ pc = "loop" /\ i = 0
  /\ InitialStateOf("output") = NoneV
  /\ layers_with_hidden_state = {"output"}
  /\ prev_states["output"].tuple
  /\ prev_states["output"].blocks =
       <<zeros(<<BatchSize, FeatDim>>, "float32"), zeros(<<BatchSize, FeatDim>>, "float32")>>
\* C24: a template node of the template map never carries a realized value.
\* Making the "prev" copy of a template node and binding a carried value to
\* the copy leaves the descriptor of the template node without a realized
\* value, and the copy keeps the class and the descriptor the template declared.
PrevCopyKeepsDeclaration(n) ==
  /\ prev_layers[n].cls = tobj[layer_data_templates[n]].cls
  /\ prev_layers[n].output = tobj[layer_data_templates[n]].output
  /\ prev_layers[n].layer_class = ":prev:" \o prev_layers[n].cls

C24_TemplateNeverCarriesRealizedValue ==
  /\ \A n \in DOMAIN layer_data_templates :
        tobj[layer_data_templates[n]].placeholder = NoneV
  /\ \A n \in DOMAIN prev_layers : PrevCopyKeepsDeclaration(n)


\* The call of transform_config_dict in frame f treats its target as stated:
\* the option stays what the specification says; for "layer:<name>" the name
\* goes to get_layer once, not before every source is resolved, and when that
\* call has returned the graph in construction has the layer; any other target
\* makes no call.
TargetOf(d) == Get(d, "target", NoTarget)

TargetResolved(f) ==
  LET t == TargetOf(f.desc)
  IN  /\ f.name \in DOMAIN net_dict =>
            /\ TargetOf(layer_desc(f)) = TargetOf(net_dict[f.name])
            /\ f.desc = net_dict_with_prev_state[f.name] \/ f.desc = net_dict[f.name]
      /\ t.p = "layer" =>
            /\ f.target_layer = <<R(t.n)>>
            /\ f.k <= Len(f.names) => f.tk = 1
            /\ f.tk > 1 =>
                  /\ f.tk = 2 /\ Len(f.srcs) = Len(src_names(f.desc))
                  /\ pc = "template" => t.n \in DOMAIN layer_data_templates
                  /\ pc = "build" => t.n \in DOMAIN layers
      /\ t.p # "layer" => f.target_layer = <<>> /\ f.tk = 1

\* C25: transform_config_dict with a target "layer:<name>" passes <name> to
\* get_layer after the sources are resolved and leaves the target option as
\* it is; a target without the prefix "layer:" makes no call of get_layer.
C25_LayerTargetIsResolvedNotInlined ==
  /\ \A j \in 1..Len(stack) : stack[j].name # RootName => TargetResolved(stack[j])
  /\ scenario = "data_target" =>
        /\ DOMAIN layer_data_templates \subseteq {"output", "src"}
        /\ DOMAIN layers \subseteq {"output", "src"}
        /\ err.msg # "LayerNotFound"
  /\ (scenario = "layer_target" /\ pc \in {"init", "loop", "done"}) =>
        calls["s"].template = 1

C25_Witness ==
  /\ scenario = "layer_target" /\ pc = "template" /\ Len(stack) = 2
  /\ Top.name = "output" /\ ~Asking /\ Top.tk = 2
  /\ Len(Top.srcs) = 1 /\ NameOfNode(Top.srcs[1]) = "src"
  /\ TargetOf(layer_desc(Top)) = LayerTarget("s")
  /\ calls["s"].template = 1 /\ calls["s"].infer = 1


\* A construction that asked for the concatenation of two or more sources
\* and got it, and the cache key of what it asked for.
IsConcatRequest(r) == Len(r.sources) >= 2 /\ r.err = ""

KeyOf(r) == <<r.sources, r.rate>>

BuiltBefore(j) == UNION {{requests[k].built[m] : m \in 1..Len(requests[k].built)} :
                           k \in 1..(j - 1)}

\* C26: after a concatenation (with optional dropout) of two or more sources
\* with the effective rate d, the cache maps (the sources in their order, d)
\* to the result; every later request with the same sources and rate gets a
\* copy of the entry and builds nothing again; another order or rate is
\* another key; with the train flag False the effective rate is 0.
C26_CacheKeyedBySourcesAndRate ==
  /\ \A j \in 1..Len(requests) :
        IsConcatRequest(requests[j]) =>
          /\ KeyOf(requests[j]) \in DOMAIN concat_sources_dropout_cache
          /\ Snapshot(Heap0, concat_sources_dropout_cache[KeyOf(requests[j])])
                = requests[j].returned
          /\ requests[j].input_data # concat_sources_dropout_cache[KeyOf(requests[j])]
          /\ \A m \in 1..Len(requests[j].built) : requests[j].built[m] \notin BuiltBefore(j)
          /\ requests[j].rate = IF train_flag = "False" THEN 0 ELSE requests[j].opts.dropout
  /\ \A k1, k2 \in DOMAIN concat_sources_dropout_cache :
        k1 # k2 => concat_sources_dropout_cache[k1] # concat_sources_dropout_cache[k2]
  /\ \A key \in DOMAIN concat_sources_dropout_cache :
        /\ key \in BuiltBefore(Len(requests) + 1)
        /\ train_flag = "False" => key[2] = 0

C26_Witness ==
  /\ Len(requests) = 2 /\ train_flag = "True"
  /\ IsConcatRequest(requests[1]) /\ IsConcatRequest(requests[2])
  /\ KeyOf(requests[1]) = <<(<<1, 2>>), 5>> /\ KeyOf(requests[2]) = KeyOf(requests[1])
  /\ requests[1].built = <<(<<(<<1, 2>>), 0>>), (<<(<<1, 2>>), 5>>)>>
  /\ requests[2].built = <<>>
  /\ requests[2].returned = requests[1].returned
  /\ requests[2].input_data # requests[1].input_data
  /\ DOMAIN concat_sources_dropout_cache = {<<(<<1, 2>>), 0>>, <<(<<1, 2>>), 5>>}

\* The realized value and the dynamic lengths of the output of layer l.
OutputValueOf(l) == data_heap[net_layers[l].output].placeholder

SizesIn(data, size, d) == IF data[d].sp = 0 THEN EmptyDict ELSE size[data[d].sp]

SizesOf(d) == SizesIn(data_heap, size_heap, d)

\* C27: constructing a layer (a copy or an activation layer over a single
\* source, dropout on a single source) never changes the realized value of
\* the output of a layer there is: it is the same object with the same value.
C27_ConstructionKeepsSourceOutputs ==
  [][\A l \in 1..Len(net_layers) :
       /\ net_layers'[l].output = net_layers[l].output
       /\ OutputValueOf(l)' = OutputValueOf(l)]_vars

\* C28: constructing a slice layer along the time axis leaves the dynamic
\* lengths of its input descriptor and of the outputs of the layers there are
\* unchanged.
C28_SliceKeepsInputLengths ==
  [][(Len(requests') > Len(requests) /\ requests'[Len(requests')].cls = "slice"
        /\ requests'[Len(requests')].err = "") =>
       /\ \A l \in 1..Len(net_layers) :
             SizesOf(net_layers[l].output)' = SizesOf(net_layers[l].output)
       /\ SizesIn(data_heap', size_heap', requests'[Len(requests')].input_data)
             = requests'[Len(requests')].returned.sizes]_vars


\* C29: the template pass predicts the step graph.  Every "prev:<name>" asked
\* for while a step graph is built names a layer the template pass recorded
\* in prev_layers_needed, and once the template pass is done every name of
\* prev_layers_needed and of layers_with_hidden_state has a template, so that
\* binding the previous values never meets a missing name.
C29_TemplatePassPredictsStepGraph ==
  /\ (pc = "build" /\ Asking /\ Asked.p \in {"prev", "prev:base"}) =>
        /\ StripPrev(Asked) \in prev_layers_needed
        /\ StripPrev(Asked) \in DOMAIN prev_layers
  /\ pc \in {"init", "build", "loop", "done"} =>
        prev_layers_needed \cup layers_with_hidden_state \subseteq DOMAIN layer_data_templates
  /\ (pc = "failed" /\ err.at \in {"init", "build", "loop"}) => err.msg # "KeyError"


\* The state call j of the decoder returned, and the number of single-step
\* calls that lead to state id from the default initial state (-1 if another
\* kind of call is among them).
ReturnedBy(j) == dec_states[j + 1]

RECURSIVE SingleSteps(_)
SingleSteps(id) ==
  IF id = 1 THEN 0
  ELSE IF dec_calls[id - 1].spatial_dim = single_step_dim
            /\ SingleSteps(dec_calls[id - 1].state) >= 0
    THEN SingleSteps(dec_calls[id - 1].state) + 1
  ELSE None

\* C30: the default initial state has pos = 0; a call returns a new state
\* whose pos is that of the given state plus 1 for a single step, plus the
\* sequence length for a whole sequence, and leaves the given state as it
\* was; after k single-step calls in a row pos = k, and call k used the
\* offset k - 1; the new state has one entry per decoder layer.
C30_PosCountsThePositions ==
  /\ dec_states # <<>> =>
        /\ dec_states[1].pos = Scalar(0)
        /\ DOMAIN dec_states[1].layers = LayerNames(num_layers)
  /\ Len(dec_states) = Len(dec_calls) + (IF dec_states = <<>> THEN 0 ELSE 1)
  /\ \A j \in 1..Len(dec_calls) :
        /\ dec_calls[j].state <= j
        /\ dec_states[dec_calls[j].state] = dec_calls[j].given
        /\ dec_calls[j].offset = dec_calls[j].given.pos
        /\ \A b \in 1..BatchSize :
              ReturnedBy(j).pos[b] = dec_calls[j].given.pos[b]
                + (IF dec_calls[j].spatial_dim.single THEN 1
                   ELSE dec_calls[j].spatial_dim.sizes[b])
        /\ DOMAIN ReturnedBy(j).layers = LayerNames(num_layers)
        /\ Cardinality(DOMAIN ReturnedBy(j).layers) = num_layers
        /\ SingleSteps(j + 1) >= 0 =>
              /\ ReturnedBy(j).pos = Scalar(SingleSteps(j + 1))
              /\ dec_calls[j].offset = Scalar(SingleSteps(j + 1) - 1)

C30_Witness ==
  /\ num_layers = MaxDecLayers /\ Len(dec_calls) = MaxCalls
  /\ SingleSteps(Len(dec_states)) = MaxCalls
  /\ dec_states[Len(dec_states)].pos = Scalar(MaxCalls)
  /\ dec_calls[MaxCalls].offset = Scalar(MaxCalls - 1)
  /\ dec_states[1].pos = Scalar(0)


====
